---- MODULE Spec2Model ----
(***************************************************************************)
(* aiowamp: the client request multiplexer (client/client.py), the Call    *)
(* object (client/call.py), the session's receive loop and goodbye         *)
(* handling (session.py) and join_realm (client/conn.py).                  *)
(*                                                                         *)
(* Scheduling is asyncio's: one task runs at a time and gives way only at  *)
(* an await that suspends.  Every action below is the code one task runs   *)
(* between two suspension points.  `await transport.send(m)` writes m and  *)
(* then may suspend: the write belongs to the step that calls send and the *)
(* code after the await to a later step (a send that does not suspend is   *)
(* the behaviour in which nothing runs in between).                        *)
(* Task cancellation follows Python >= 3.8: CancelledError is not an       *)
(* Exception, so `except Exception` does not catch it.                     *)
(***************************************************************************)
EXTENDS Integers, Sequences, FiniteSets, TLC

\* ------------------------------------------------------------------ bounds
MaxId == 2
MaxCalls == 1
MaxRouterMsgs == 3
MaxCancels == 1
MaxReqId == 4       \* request ids of register, unregister, unsubscribe, publish
MaxApiCalls == 1    \* calls of unregister and unsubscribe
MaxInvSends == 3    \* calls of the send methods of one Invocation
MaxPublishes == 3   \* calls of publish
MaxYields == 4      \* values an async-generator handler yields
MaxHandlerYields == 2   \* values a handler yields that may be interrupted
MaxNexts == 3       \* calls of IDGenerator.next in a run
MaxUriLen == 3      \* characters of a URI given to URI.policy_match
MaxListLen == 2     \* items of a list given to BlackWhiteList
MaxSessionId == 3   \* session ids given to a BlackWhiteList
MaxChecks == 2      \* checks made on a BlackWhiteList
IdWindow == 12      \* how far below a boundary an IDGenerator begins

\* --------------------------------------------------------------- constants
GOODBYE_AND_OUT == "wamp.close.goodbye_and_out"
CLOSE_NORMAL == "wamp.close.normal"
SYSTEM_SHUTDOWN == "wamp.close.system_shutdown"
CANCEL_KILL_NO_WAIT == "killnowait"
CANCEL_KILL == "kill"
CANCEL_SKIP == "skip"
MAX_ID_BITS == 53
INVALID_ARGUMENT == "wamp.error.invalid_argument"
CANCELLED == "wamp.error.canceled"

Ids == 1..MaxReqId

\* the ids the router hands out (registration and subscription ids): the
\* serial number of the message that carries them
Serials == 1..MaxRouterMsgs

\* procedure and topic URIs
URIs == {"u1", "u2"}

VARIABLES
    \* client/client.py: Client
    id_gen,             \* IDGenerator.__id
    awaiting_reply,     \* keys of Client.__awaiting_reply
    ongoing_calls,      \* keys of Client.__ongoing_calls
    sub_handlers,       \* keys of Client.__sub_handlers (subscription ids)
    reply_fut,          \* the future _expecting_response made for a request id
    client_close,       \* outcome of Client.close: "" until it was called
    \* client/call.py: Call, one per request id
    call_sent,          \* Call._call_sent
    result_fut,         \* Call.__result_fut: [st, val]
    progress_queue,     \* Call.__progress_queue: [made, items]; item 0 is None
    progress_handler,   \* Call.__progress_handler is set
    receive_progress,   \* Call._call_msg.options["receive_progress"]
    cancel_mode,        \* Call.__cancel_mode
    handled,            \* progress passed to the progress handler, in order
    response_ops,       \* what the dispatch of a reply did to the Call and the map, in order
    \* the task consuming a Call
    cons_pc,            \* where the task is
    cons_out,           \* what the task last got: a result or an exception
    yielded,            \* what next_progress has returned, in order; 0 is None
    awaited,            \* the first await of the Call: "", "result" or "progress"
    task_cancel,        \* where the task was when it was cancelled, else ""
    cons2,              \* a second task that awaits the same Call: [pc, out, yielded, ahead]
    \* the task running Client.subscribe for a request id
    sub_pc, sub_out,
    \* transport (tests/mock.py: DummyTransport)
    sent_messages, receive_queue, closed, router_count,
    \* session.py: Session
    goodbye_fut,        \* Session.__goodbye_fut: [st, reason]
    receive_task,       \* Session.__receive_task: [pc, gen, goodbye, err]
    attached,           \* Client.__handle_message is a listener of message_handler
    emitted,            \* handler tasks emit created that have not started yet
    dispatched,         \* messages __handle_message has been run on, in order
    close_pc,           \* the task running Session.close
    \* client/conn.py: join_realm
    join,
    \* client/client.py: registrations, subscriptions, single-shot requests
    procedure_ids,      \* Client.__procedure_ids: URI -> [has, ids]
    procedures,         \* keys of Client.__procedures (registration ids)
    sub_ids,            \* Client.__sub_ids: topic -> [has, ids]
    sub_callback,       \* Client.__sub_handlers[id]: the subscribe request it came from
    req_pc, req_kind, req_arg, req_out,  \* the task of a register, unregister,
                        \* unsubscribe or publish request, per request id
    gather_queue,       \* the tasks asyncio.gather made that have not started yet
    api_log,            \* the calls of unregister and unsubscribe and how they began
    \* client/client.py and client/invocation.py: invocations
    running_procedures, \* keys of Client.__running_procedures
    inv,                \* the Invocation and its runner, per invocation request id
    event_log,          \* calls of subscription handlers, in order
    \* id.py: an IDGenerator at its full width
    gen_id,             \* IDGenerator.__id, as [hi, lo]: hi * 2^30 + lo
    gen_from,           \* the value of __id the run began with
    gen_out,            \* what next() has returned, in order
    \* uri.py: a call of URI.policy_match
    match_args,         \* [policy, uri, other]
    match_out,          \* what the call returned or raised, "" before it
    \* client/bwlist.py: a BlackWhiteList
    bw_args,            \* the arguments of __init__: [excluded_ids, eligible_ids]
    bwlist,             \* the BlackWhiteList: [excluded_ids, eligible_ids]
    bw_out,             \* the checks made on it, in order
    \* transports/raw_socket.py: a RawSocketTransport, its stream and a caller of recv
    raw

clientVars == <<id_gen, awaiting_reply, ongoing_calls, sub_handlers, reply_fut, client_close>>
callVars == <<call_sent, result_fut, progress_queue, progress_handler, receive_progress,
              cancel_mode, handled,
              response_ops>>
consVars == <<cons_pc, cons_out, yielded, awaited, task_cancel, cons2>>
subVars == <<sub_pc, sub_out>>
transportVars == <<sent_messages, receive_queue, closed, router_count>>
sessionVars == <<goodbye_fut, receive_task, attached, emitted, dispatched, close_pc>>
regVars == <<procedure_ids, procedures, sub_ids, sub_callback, req_pc, req_kind, req_arg,
             req_out, gather_queue, api_log>>
invVars == <<running_procedures, inv, event_log>>
\* library objects outside the client
genVars == <<gen_id, gen_from, gen_out>>
matchVars == <<match_args, match_out>>
bwVars == <<bw_args, bwlist, bw_out>>
libVars == <<genVars, matchVars, bwVars, raw>>
vars == <<clientVars, callVars, consVars, subVars, transportVars, sessionVars, join,
          regVars, invVars, libVars>>

\* ---------------------------------------------------------------- messages
\* A message: type, request id (0 when the type has none), one payload field
\* (RESULT: "progress" or ""; GOODBYE: reason; CANCEL: mode; CALL: the
\* receive_progress option) and, for messages of the router, a serial number.
Msg(t, id, arg, n) == [t |-> t, id |-> id, arg |-> arg, n |-> n, reg |-> 0]

\* a message that names a registration or a subscription (INVOCATION, EVENT,
\* UNREGISTER, UNSUBSCRIBE)
MsgFor(t, id, arg, n, reg) == [t |-> t, id |-> id, arg |-> arg, n |-> n, reg |-> reg]

HasRequestId(m) == m.t \in {"RESULT", "ERROR", "SUBSCRIBED", "PUBLISHED", "REGISTERED",
                            "UNREGISTERED", "UNSUBSCRIBED"}

Written(t, id) == \E i \in 1..Len(sent_messages) :
                      sent_messages[i].t = t /\ sent_messages[i].id = id

CountSent(t, id) == Cardinality({i \in 1..Len(sent_messages) :
                      sent_messages[i].t = t /\ sent_messages[i].id = id})

\* Session.send -> transport.send: the write
Send(m) == sent_messages' = Append(sent_messages, m)

\* ------------------------------------------------------------ id generator
\* n > MAX_ID with MAX_ID = 1 << 53, compared in two limbs of 30 and 23 bits
ExceedsMaxId(n) ==
    LET hi == (n \div (2 ^ 30)) \div (2 ^ (MAX_ID_BITS - 30))
        rest == (n % (2 ^ 30)) + ((n \div (2 ^ 30)) % (2 ^ (MAX_ID_BITS - 30)))
    IN hi > 1 \/ (hi = 1 /\ rest > 0)

IDGenerator_next(id) == IF ExceedsMaxId(id + 1) THEN 1 ELSE id + 1

\* the same generator at its full width.  An id is held as two limbs,
\* [hi, lo] for hi * 2^30 + lo with lo < 2^30
Limb == 2 ^ 30

Wide(hi, lo) == [hi |-> hi, lo |-> lo]

\* MAX_ID = 1 << 53
MAX_ID == Wide(2 ^ (MAX_ID_BITS - 30), 0)

\* self.__id += 1
WideInc(w) == IF w.lo + 1 = Limb THEN Wide(w.hi + 1, 0) ELSE Wide(w.hi, w.lo + 1)

\* mutant of WideExceeds: >= in the place of >
WideExceedsOrEquals(a, b) == a.hi > b.hi \/ (a.hi = b.hi /\ a.lo >= b.lo)

\* a > b
WideExceeds(a, b) == a.hi > b.hi \/ (a.hi = b.hi /\ a.lo > b.lo)

\* IDGenerator.next on the value of __id: the new __id, which is returned
WideNext(w) == IF WideExceeds(WideInc(w), MAX_ID) THEN Wide(0, 1) ELSE WideInc(w)

\* the values an IDGenerator is followed from: the fresh generator, and
\* generators that have counted up to just below where the low limb
\* carries and where the ids wrap
GenStarts ==
    {Wide(0, lo) : lo \in 0..IdWindow}
    \cup {Wide(0, Limb - d) : d \in 1..IdWindow}
    \cup {Wide(MAX_ID.hi - 1, Limb - d) : d \in 1..IdWindow}
    \cup {MAX_ID}

\* IDGenerator.next
GenNext ==
    /\ Len(gen_out) < MaxNexts
    /\ gen_id' = WideNext(gen_id)
    /\ gen_out' = Append(gen_out, gen_id')
    /\ UNCHANGED <<clientVars, callVars, consVars, subVars, transportVars, sessionVars, join,
                   regVars, invVars, gen_from, matchVars, bwVars, raw>>

\* ------------------------------------------------------------------ uri.py
MATCH_PREFIX == "prefix"
MATCH_WILDCARD == "wildcard"

\* the characters of a URI: two letters and the separator
UriChars == {"a", "b", "."}

\* the strings given to URI.policy_match, as sequences of characters
UriStrings == UNION {[1..n -> UriChars] : n \in 0..MaxUriLen}

\* str.startswith
StartsWith(s, prefix) == Len(prefix) <= Len(s) /\ SubSeq(s, 1, Len(prefix)) = prefix

\* str.split("."): the components, an empty string has one empty component
RECURSIVE Split(_)
Split(s) ==
    IF \A i \in 1..Len(s) : s[i] # "."
    THEN <<s>>
    ELSE LET i == CHOOSE i \in 1..Len(s) : s[i] = "." /\ \A j \in 1..(i - 1) : s[j] # "."
         IN <<SubSeq(s, 1, i - 1)>> \o Split(SubSeq(s, i + 1, Len(s)))

\* URI.prefix_match(uri, prefix)
PrefixMatch(uri, prefix) ==
    IF ~StartsWith(uri, prefix) THEN FALSE
    ELSE IF Len(prefix) + 1 > Len(uri) THEN TRUE     \* IndexError
    ELSE uri[Len(prefix) + 1] = "."

\* URI.wildcard_match(uri, wildcard)
WildcardMatch(uri, wildcard) ==
    LET parts == Split(uri)
        wc_parts == Split(wildcard)
    IN IF Len(parts) # Len(wc_parts) THEN FALSE
       ELSE \A i \in 1..Len(parts) : ~(wc_parts[i] # <<>> /\ wc_parts[i] # parts[i])

\* a bool as what a call returned
Returned(b) == IF b THEN "True" ELSE "False"

\* URI.policy_match(policy, uri, other); the policy None is ""
PolicyMatch(policy, uri, other) ==
    IF policy = "" THEN Returned(uri = other)
    ELSE IF policy = MATCH_WILDCARD THEN Returned(WildcardMatch(other, uri))
    ELSE IF policy = MATCH_PREFIX THEN Returned(PrefixMatch(other, uri))
    ELSE "ValueError"

\* a call of URI.policy_match
CallPolicyMatch ==
    /\ match_out = ""
    /\ match_out' = PolicyMatch(match_args.policy, match_args.uri, match_args.other)
    /\ UNCHANGED <<clientVars, callVars, consVars, subVars, transportVars, sessionVars, join,
                   regVars, invVars, genVars, match_args, bwVars, raw>>

\* ------------------------------------------------------- client/bwlist.py
\* an array or list that is None
NoArray == [has |-> FALSE, ids |-> <<>>]

\* the lists given to BlackWhiteList: None, or session ids in any order,
\* some more than once
IdLists ==
    {NoArray} \cup {[has |-> TRUE, ids |-> l] :
                       l \in UNION {[1..n -> 1..MaxSessionId] : n \in 0..MaxListLen}}

\* the items of a list
Items(l) == {l[i] : i \in 1..Len(l)}

\* the lists that hold each item of a set once, in any order
ListsOf(S) == {l \in [1..Cardinality(S) -> S] : Items(l) = S}

\* unique_list_or_none: None stays None, else list(set(it)): the distinct
\* items in the order the set iterates them, which the language leaves open
UniqueListOrNone(it) ==
    IF ~it.has THEN {NoArray} ELSE {[has |-> TRUE, ids |-> l] : l \in ListsOf(Items(it.ids))}

\* mutant of ContainsIfNotNone: no list counts as an empty one
ContainsIfNotNoneEmpty(c, v, default) == c.has /\ v \in Items(c.ids)

\* contains_if_not_none
ContainsIfNotNone(c, v, default) == IF ~c.has THEN default ELSE v \in Items(c.ids)

\* BlackWhiteList.is_excluded for a session id
IsExcluded(bw, receiver) == ContainsIfNotNone(bw.excluded_ids, receiver, FALSE)

\* BlackWhiteList.is_eligible for a session id
IsEligible(bw, receiver) == ContainsIfNotNone(bw.eligible_ids, receiver, TRUE)

\* BlackWhiteList.__contains__
BwContains(bw, receiver) == IsEligible(bw, receiver) /\ ~IsExcluded(bw, receiver)

\* `receiver in bwlist`, is_eligible and is_excluded asked of the bwlist
BwCheck(receiver) ==
    /\ Len(bw_out) < MaxChecks
    /\ bw_out' = Append(bw_out, [receiver |-> receiver,
                                 contains |-> BwContains(bwlist, receiver),
                                 is_eligible |-> IsEligible(bwlist, receiver),
                                 is_excluded |-> IsExcluded(bwlist, receiver)])
    /\ UNCHANGED <<clientVars, callVars, consVars, subVars, transportVars, sessionVars, join,
                   regVars, invVars, genVars, matchVars, bw_args, bwlist, raw>>

\* the calls of exclude_session_id and allow_session_id that are made
MaxAdds == 2

\* a constraint that holds a session id where a list belongs
NotAList(v) == [has |-> TRUE, int |-> v]

IsList(c) == "ids" \in DOMAIN c

\* mutant of AddOptionalUniqueList: a value that is in the list already is
\* added again
AddOptionalUniqueListAgain(l, v) ==
    IF ~l.has THEN [has |-> TRUE, ids |-> <<v>>] ELSE [has |-> TRUE, ids |-> Append(l.ids, v)]

\* add_optional_unique_list: None gives [v]; else v is inserted into l unless
\* it is there, and `return v` gives the value back, not the list.  `v not
\* in l` raises TypeError when l is not a list
AddOptionalUniqueList(l, v) ==
    IF ~l.has THEN [has |-> TRUE, ids |-> <<v>>]
    ELSE IF IsList(l) THEN NotAList(v)
    ELSE [has |-> FALSE, raised |-> "TypeError"]

\* BlackWhiteList.exclude_session_id / allow_session_id: the attribute is
\* assigned what add_optional_unique_list returns, and keeps its value when
\* that raises
BwAdd(field, session_id) ==
    /\ Len(bw_out) < MaxAdds
    /\ LET new == AddOptionalUniqueList(bwlist[field], session_id)
           raised == ~new.has IN
       /\ bwlist' = IF raised THEN bwlist ELSE [bwlist EXCEPT ![field] = new]
       /\ bw_out' = Append(bw_out, [field |-> field, session_id |-> session_id,
                                    raised |-> raised])
    /\ UNCHANGED <<clientVars, callVars, consVars, subVars, transportVars, sessionVars, join,
                   regVars, invVars, genVars, matchVars, bw_args, raw>>

exclude_session_id(session_id) == BwAdd("excluded_ids", session_id)

allow_session_id(session_id) == BwAdd("eligible_ids", session_id)


\* ------------------------------------------------------------------- Init
NoFut == [st |-> "none", val |-> ""]
Pending == [st |-> "pending", val |-> ""]
NoReply == [st |-> "none", val |-> "", n |-> 0]
NoMsg == [t |-> "", id |-> 0, arg |-> "", n |-> 0, reg |-> 0]
NoArg == [uri |-> "", id |-> 0, call |-> 0]
NoRunner == [pc |-> "none", kind |-> "", catches |-> FALSE, interrupted |-> FALSE,
             gen |-> <<>>, pos |-> 0, held |-> 0, values |-> <<>>]
NoInv == [pc |-> "none", done |-> FALSE, progress |-> FALSE, interrupt |-> FALSE,
          calls |-> <<>>, runner |-> NoRunner]
NoCons == [pc |-> "none", out |-> "", yielded |-> <<>>, ahead |-> FALSE]
NoJoin == [pc |-> "off", keyring |-> {}, first |-> NoMsg, method |-> "",
           welcome |-> NoMsg, abort |-> NoMsg, out |-> "", session_id |-> 0, details |-> ""]

InitBase ==
    /\ id_gen = 0
    /\ awaiting_reply = {}
    /\ ongoing_calls = {}
    /\ sub_handlers = {}
    /\ reply_fut = [r \in Ids |-> NoReply]
    /\ client_close = ""
    /\ call_sent = [r \in Ids |-> FALSE]
    /\ result_fut = [r \in Ids |-> NoFut]
    /\ progress_queue = [r \in Ids |-> [made |-> FALSE, items |-> <<>>]]
    /\ progress_handler = [r \in Ids |-> FALSE]
    /\ receive_progress = [r \in Ids |-> "unset"]
    /\ cancel_mode = [r \in Ids |-> ""]
    /\ handled = [r \in Ids |-> <<>>]
    /\ response_ops = [r \in Ids |-> <<>>]
    /\ cons_pc = [r \in Ids |-> "none"]
    /\ cons_out = [r \in Ids |-> ""]
    /\ yielded = [r \in Ids |-> <<>>]
    /\ awaited = [r \in Ids |-> ""]
    /\ task_cancel = [r \in Ids |-> ""]
    /\ cons2 = [r \in Ids |-> NoCons]
    /\ sub_pc = [r \in Ids |-> "none"]
    /\ sub_out = [r \in Ids |-> ""]
    /\ sent_messages = <<>>
    /\ receive_queue = <<>>
    /\ closed = FALSE
    /\ router_count = 0
    /\ goodbye_fut = NoFut
    /\ attached = TRUE
    /\ emitted = <<>>
    /\ dispatched = <<>>
    /\ close_pc = "idle"
    /\ sub_callback = [i \in Serials |-> 0]
    /\ req_pc = [r \in Ids |-> "none"]
    /\ req_kind = [r \in Ids |-> ""]
    /\ req_arg = [r \in Ids |-> NoArg]
    /\ req_out = [r \in Ids |-> ""]
    /\ gather_queue = <<>>
    /\ api_log = <<>>
    /\ running_procedures = {}
    /\ inv = [r \in Ids |-> NoInv]
    /\ event_log = <<>>

\* IDGenerator.__init__
GenNew ==
    /\ gen_id = Wide(0, 0)
    /\ gen_from = Wide(0, 0)
    /\ gen_out = <<>>

\* no call of URI.policy_match
MatchNone ==
    /\ match_args = [policy |-> "", uri |-> <<>>, other |-> <<>>]
    /\ match_out = ""

\* BlackWhiteList()
BwNew ==
    /\ bw_args = [excluded_ids |-> NoArray, eligible_ids |-> NoArray]
    /\ bwlist = [excluded_ids |-> NoArray, eligible_ids |-> NoArray]
    /\ bw_out = <<>>

\* no RawSocketTransport
NoRaw == [pc |-> "none", header |-> <<>>, buffer |-> <<>>, eof |-> FALSE, closed |-> FALSE,
          queue |-> <<>>, pongs |-> 0, fed |-> 0, seen |-> FALSE, over |-> 0,
          in_body |-> FALSE, recv_pc |-> "idle", recv_out |-> <<>>]

RawNone == raw = NoRaw

LibInit == GenNew /\ MatchNone /\ BwNew /\ RawNone

\* a Client on a started Session
Init ==
    /\ InitBase
    /\ LibInit
    /\ procedure_ids = [u \in URIs |-> NoArray]
    /\ procedures = {}
    /\ sub_ids = [u \in URIs |-> NoArray]
    /\ receive_task = [pc |-> "recv", gen |-> 1, goodbye |-> "", err |-> ""]
    /\ join = NoJoin

\* a connected transport on which join_realm is about to be called
JoinInit ==
    /\ InitBase
    /\ LibInit
    /\ procedure_ids = [u \in URIs |-> NoArray]
    /\ procedures = {}
    /\ sub_ids = [u \in URIs |-> NoArray]
    /\ receive_task = [pc |-> "none", gen |-> 0, goodbye |-> "", err |-> ""]
    /\ join = [NoJoin EXCEPT !.pc = "start"]


\* ------------------------------------------------- asyncio.Future helpers
Done(f) == f.st \notin {"none", "pending"}

\* Future.cancel(): cancels a pending future, leaves a done one as it is
FutCancel(f) == IF f.st = "pending" THEN [st |-> "cancelled", val |-> ""] ELSE f

\* Last item of the progress iteration: next_progress returned None
Ended(rid) == Len(yielded[rid]) > 0 /\ yielded[rid][Len(yielded[rid])] = 0

\* -------------------------------------------------------- client/call.py
\* mutant of EnsureReceiveProgress: it never raises
EnsureReceiveProgressAlways(rid) == TRUE

\* Call.__ensure_receive_progress: TRUE when it returns, FALSE when it raises
EnsureReceiveProgress(rid) ==
    \/ receive_progress[rid] = "true"
    \/ receive_progress[rid] = "unset" /\ ~call_sent[rid]

\* what `raise self.__result_fut.exception()` of __send_call raises on a done
\* future: the stored exception, CancelledError from exception() itself, or
\* TypeError for `raise None`
SendCallRaises(rid) ==
    CASE result_fut[rid].st = "exception" -> result_fut[rid].val
      [] result_fut[rid].st = "cancelled" -> "CancelledError"
      [] OTHER -> "TypeError"

\* Call.result after `await self.__result_fut` on a done future
ResultOutcome(rid) ==
    CASE result_fut[rid].st = "cancelled" -> "CancelledError"
      [] result_fut[rid].st = "exception" -> result_fut[rid].val
      [] result_fut[rid].val = "RESULT" -> "InvocationResult"
      [] OTHER -> "ErrorResponse"

\* mutant of ClientCall: the CALL is written when the Call is made
ClientCallEager(rp, cm) ==
    LET rid == IDGenerator_next(id_gen) IN
    /\ client_close = ""
    /\ id_gen < MaxId
    /\ Cardinality({r \in Ids : result_fut[r].st # "none"}) < MaxCalls
    /\ id_gen' = rid
    /\ receive_progress' = [receive_progress EXCEPT ![rid] = rp]
    /\ cancel_mode' = [cancel_mode EXCEPT ![rid] = IF cm = "" THEN CANCEL_KILL_NO_WAIT ELSE cm]
    /\ result_fut' = [result_fut EXCEPT ![rid] = Pending]
    /\ ongoing_calls' = ongoing_calls \cup {rid}
    /\ cons_pc' = [cons_pc EXCEPT ![rid] = "idle"]
    /\ call_sent' = [call_sent EXCEPT ![rid] = TRUE]
    /\ Send(Msg("CALL", rid, rp, 0))
    /\ UNCHANGED <<awaiting_reply, sub_handlers, reply_fut, client_close,
                   progress_queue, progress_handler, handled, response_ops, cons_out, yielded, awaited,
                   task_cancel, cons2, subVars, receive_queue, closed, router_count, sessionVars,
                   join, regVars, invVars, libVars>>

\* Client.call: builds the Call and records it; nothing is awaited
ClientCall(rp, cm) ==
    LET rid == IDGenerator_next(id_gen) IN
    /\ client_close = ""
    /\ id_gen < MaxId
    /\ Cardinality({r \in Ids : result_fut[r].st # "none"}) < MaxCalls
    /\ id_gen' = rid
    /\ receive_progress' = [receive_progress EXCEPT ![rid] = rp]
    /\ cancel_mode' = [cancel_mode EXCEPT ![rid] = IF cm = "" THEN CANCEL_KILL_NO_WAIT ELSE cm]
    /\ result_fut' = [result_fut EXCEPT ![rid] = Pending]
    /\ ongoing_calls' = ongoing_calls \cup {rid}
    /\ cons_pc' = [cons_pc EXCEPT ![rid] = "idle"]
    /\ UNCHANGED <<awaiting_reply, sub_handlers, reply_fut, client_close, call_sent,
                   progress_queue, progress_handler, handled, response_ops, cons_out, yielded, awaited,
                   task_cancel, cons2, subVars, transportVars, sessionVars, join, regVars, invVars,
                   libVars>>

\* Call.on_progress
OnProgress(rid) ==
    /\ cons_pc[rid] = "idle"
    /\ IF Done(result_fut[rid]) \/ progress_handler[rid] \/ ~EnsureReceiveProgress(rid)
       THEN /\ cons_out' = [cons_out EXCEPT ![rid] = "RuntimeError"]
            /\ UNCHANGED <<progress_handler, receive_progress>>
       ELSE /\ receive_progress' = [receive_progress EXCEPT ![rid] = "true"]
            /\ progress_handler' = [progress_handler EXCEPT ![rid] = TRUE]
            /\ UNCHANGED cons_out
    /\ UNCHANGED <<clientVars, call_sent, result_fut, progress_queue, cancel_mode, handled, response_ops,
                   cons_pc, yielded, awaited, task_cancel, cons2, subVars, transportVars, sessionVars,
                   join, regVars, invVars, libVars>>

\* Call.result -> __next_final -> __send_call, up to the first suspension
AwaitResult(rid) ==
    /\ cons_pc[rid] = "idle"
    /\ awaited' = [awaited EXCEPT ![rid] = IF @ = "" THEN "result" ELSE @]
    /\ IF ~call_sent[rid]
       THEN IF Done(result_fut[rid])
            THEN /\ cons_pc' = [cons_pc EXCEPT ![rid] = "done"]
                 /\ cons_out' = [cons_out EXCEPT ![rid] = SendCallRaises(rid)]
                 /\ UNCHANGED <<call_sent, sent_messages>>
            ELSE /\ call_sent' = [call_sent EXCEPT ![rid] = TRUE]
                 /\ Send(Msg("CALL", rid, receive_progress[rid], 0))
                 /\ cons_pc' = [cons_pc EXCEPT ![rid] = "send_result"]
                 /\ UNCHANGED cons_out
       ELSE /\ UNCHANGED <<call_sent, sent_messages>>
            /\ IF Done(result_fut[rid])
               THEN /\ cons_pc' = [cons_pc EXCEPT ![rid] = "done"]
                    /\ cons_out' = [cons_out EXCEPT ![rid] = ResultOutcome(rid)]
               ELSE /\ cons_pc' = [cons_pc EXCEPT ![rid] = "wait_result"]
                    /\ UNCHANGED cons_out
    /\ UNCHANGED <<clientVars, result_fut, progress_queue, progress_handler, receive_progress,
                   cancel_mode, handled, response_ops, yielded, task_cancel, cons2, subVars, receive_queue, closed,
                   router_count, sessionVars, join, regVars, invVars, libVars>>

\* Call.next_progress from `if self.__progress_queue is None` on
ProgressBody(rid) ==
    LET items == progress_queue[rid].items IN
    /\ IF items = <<>> /\ Done(result_fut[rid])
       THEN /\ yielded' = [yielded EXCEPT ![rid] = Append(@, 0)]
            /\ cons_pc' = [cons_pc EXCEPT ![rid] = "idle"]
            /\ progress_queue' = [progress_queue EXCEPT ![rid] = [made |-> TRUE, items |-> items]]
       ELSE IF items # <<>>
       THEN /\ yielded' = [yielded EXCEPT ![rid] = Append(@, Head(items))]
            /\ cons_pc' = [cons_pc EXCEPT ![rid] = "idle"]
            /\ progress_queue' = [progress_queue EXCEPT ![rid] = [made |-> TRUE, items |-> Tail(items)]]
       ELSE /\ cons_pc' = [cons_pc EXCEPT ![rid] = "wait_progress"]
            /\ progress_queue' = [progress_queue EXCEPT ![rid] = [made |-> TRUE, items |-> items]]
            /\ UNCHANGED yielded

\* Call.next_progress, up to the first suspension
NextProgress(rid) ==
    /\ cons_pc[rid] = "idle"
    /\ ~Ended(rid)
    /\ awaited' = [awaited EXCEPT ![rid] = IF @ = "" THEN "progress" ELSE @]
    /\ IF ~EnsureReceiveProgress(rid)
       THEN /\ cons_out' = [cons_out EXCEPT ![rid] = "RuntimeError"]
            /\ UNCHANGED <<receive_progress, call_sent, sent_messages, cons_pc, yielded,
                           progress_queue>>
       ELSE /\ receive_progress' = [receive_progress EXCEPT ![rid] = "true"]
            /\ IF ~call_sent[rid]
               THEN IF Done(result_fut[rid])
                    THEN /\ cons_pc' = [cons_pc EXCEPT ![rid] = "done"]
                         /\ cons_out' = [cons_out EXCEPT ![rid] = SendCallRaises(rid)]
                         /\ UNCHANGED <<call_sent, sent_messages, yielded, progress_queue>>
                    ELSE /\ call_sent' = [call_sent EXCEPT ![rid] = TRUE]
                         /\ Send(Msg("CALL", rid, "true", 0))
                         /\ cons_pc' = [cons_pc EXCEPT ![rid] = "send_progress"]
                         /\ UNCHANGED <<cons_out, yielded, progress_queue>>
               ELSE /\ ProgressBody(rid)
                    /\ UNCHANGED <<call_sent, sent_messages, cons_out>>
    /\ UNCHANGED <<clientVars, result_fut, progress_handler, cancel_mode, handled, response_ops,
                   task_cancel, cons2, subVars, receive_queue, closed, router_count, sessionVars,
                   join, regVars, invVars, libVars>>

\* `await self.session.send(self._call_msg)` returns: __send_call is over and
\* result goes on to `await self.__result_fut`, next_progress to the queue
SendCallReturns(rid) ==
    /\ cons_pc[rid] \in {"send_result", "send_progress"}
    /\ IF cons_pc[rid] = "send_result"
       THEN /\ IF Done(result_fut[rid])
               THEN /\ cons_pc' = [cons_pc EXCEPT ![rid] = "done"]
                    /\ cons_out' = [cons_out EXCEPT ![rid] = ResultOutcome(rid)]
               ELSE /\ cons_pc' = [cons_pc EXCEPT ![rid] = "wait_result"]
                    /\ UNCHANGED cons_out
            /\ UNCHANGED <<yielded, progress_queue>>
       ELSE /\ ProgressBody(rid)
            /\ UNCHANGED cons_out
    /\ UNCHANGED <<clientVars, call_sent, result_fut, progress_handler, receive_progress,
                   cancel_mode, handled, response_ops, awaited, task_cancel, cons2, subVars, transportVars,
                   sessionVars, join, regVars, invVars, libVars>>

\* the task awaiting __result_fut is woken: the future is done
ResultResume(rid) ==
    /\ cons_pc[rid] = "wait_result"
    /\ Done(result_fut[rid])
    /\ cons_pc' = [cons_pc EXCEPT ![rid] = "done"]
    /\ cons_out' = [cons_out EXCEPT ![rid] = ResultOutcome(rid)]
    /\ UNCHANGED <<clientVars, callVars, yielded, awaited, task_cancel, cons2, subVars,
                   transportVars, sessionVars, join, regVars, invVars, libVars>>

\* the task awaiting __progress_queue.get() is woken: the queue has an item
ProgressResume(rid) ==
    /\ cons_pc[rid] = "wait_progress"
    /\ progress_queue[rid].items # <<>>
    /\ ProgressBody(rid)
    /\ UNCHANGED <<clientVars, call_sent, result_fut, progress_handler, receive_progress,
                   cancel_mode, handled, response_ops, cons_out, awaited, task_cancel, cons2, subVars,
                   transportVars, sessionVars, join, regVars, invVars, libVars>>

\* ------------------------------------------ a second task on the same Call
\* mutant of ShouldSendCall: the CALL is sent while the Call is not done
ShouldSendCallWhilePending(rid) == ~Done(result_fut[rid])

\* `if not self._call_sent:` of __next_final and next_progress
ShouldSendCall(rid) == ~call_sent[rid]

Ended2(rid) ==
    Len(cons2[rid].yielded) > 0 /\ cons2[rid].yielded[Len(cons2[rid].yielded)] = 0

\* the second task is not inside a call of result or next_progress
Idle2(rid) ==
    /\ result_fut[rid].st # "none"
    /\ cons2[rid].pc \in {"none", "idle"}

\* what the second task leaves unchanged
Other2Unchanged ==
    UNCHANGED <<clientVars, result_fut, progress_handler, cancel_mode, handled, response_ops,
                cons_pc, cons_out, yielded, awaited, task_cancel, subVars, receive_queue,
                closed, router_count, sessionVars, join, regVars, invVars, libVars>>

\* __next_final / next_progress: `await self.__send_call()`, up to the
\* suspension in send; rp is the receive_progress option of the CALL, then_pc
\* is where the task is while the send is pending
OtherSendCall(rid, rp, then_pc) ==
    IF Done(result_fut[rid])
    THEN /\ cons2' = [cons2 EXCEPT ![rid].pc = "done", ![rid].out = SendCallRaises(rid)]
         /\ UNCHANGED <<call_sent, sent_messages>>
    ELSE /\ call_sent' = [call_sent EXCEPT ![rid] = TRUE]
         /\ Send(Msg("CALL", rid, rp, 0))
         /\ cons2' = [cons2 EXCEPT ![rid].pc = then_pc]

\* __next_final: `return await self.__result_fut`
OtherAwaitFut(rid) ==
    cons2' = IF Done(result_fut[rid])
             THEN [cons2 EXCEPT ![rid].pc = "done", ![rid].out = ResultOutcome(rid)]
             ELSE [cons2 EXCEPT ![rid].pc = "wait_result"]

\* Call.next_progress from `if self.__progress_queue is None` on; a task that
\* has to wait is behind the first task when that one is waiting already
OtherBody(rid) ==
    LET items == progress_queue[rid].items IN
    IF items = <<>> /\ Done(result_fut[rid])
    THEN /\ cons2' = [cons2 EXCEPT ![rid].pc = "idle", ![rid].yielded = Append(@, 0)]
         /\ progress_queue' = [progress_queue EXCEPT ![rid] = [made |-> TRUE, items |-> items]]
    ELSE IF items # <<>>
    THEN /\ cons2' = [cons2 EXCEPT ![rid].pc = "idle", ![rid].yielded = Append(@, Head(items))]
         /\ progress_queue' = [progress_queue EXCEPT ![rid] =
                                   [made |-> TRUE, items |-> Tail(items)]]
    ELSE /\ cons2' = [cons2 EXCEPT ![rid].pc = "wait_progress",
                                   ![rid].ahead = (cons_pc[rid] # "wait_progress")]
         /\ progress_queue' = [progress_queue EXCEPT ![rid] = [made |-> TRUE, items |-> items]]

\* Call.result -> __next_final, up to the first suspension
OtherAwaitResult(rid) ==
    /\ Idle2(rid)
    /\ IF ShouldSendCall(rid)
       THEN OtherSendCall(rid, receive_progress[rid], "send_result")
       ELSE /\ OtherAwaitFut(rid)
            /\ UNCHANGED <<call_sent, sent_messages>>
    /\ UNCHANGED <<receive_progress, progress_queue>>
    /\ Other2Unchanged

\* Call.next_progress, up to the first suspension
OtherNextProgress(rid) ==
    /\ Idle2(rid)
    /\ ~Ended2(rid)
    /\ IF ~EnsureReceiveProgress(rid)
       THEN /\ cons2' = [cons2 EXCEPT ![rid].out = "RuntimeError"]
            /\ UNCHANGED <<receive_progress, call_sent, sent_messages, progress_queue>>
       ELSE /\ receive_progress' = [receive_progress EXCEPT ![rid] = "true"]
            /\ IF ShouldSendCall(rid)
               THEN /\ OtherSendCall(rid, "true", "send_progress")
                    /\ UNCHANGED progress_queue
               ELSE /\ OtherBody(rid)
                    /\ UNCHANGED <<call_sent, sent_messages>>
    /\ Other2Unchanged

\* `await self.session.send(self._call_msg)` returns in the second task
OtherSendReturns(rid) ==
    /\ cons2[rid].pc \in {"send_result", "send_progress"}
    /\ IF cons2[rid].pc = "send_result"
       THEN /\ OtherAwaitFut(rid)
            /\ UNCHANGED progress_queue
       ELSE OtherBody(rid)
    /\ UNCHANGED <<call_sent, sent_messages, receive_progress>>
    /\ Other2Unchanged

\* the second task, awaiting __result_fut, is woken
OtherResultResume(rid) ==
    /\ cons2[rid].pc = "wait_result"
    /\ Done(result_fut[rid])
    /\ OtherAwaitFut(rid)
    /\ UNCHANGED <<call_sent, sent_messages, receive_progress, progress_queue>>
    /\ Other2Unchanged

\* the getter of the first task is the one a put wakes: the second task is
\* not waiting in front of it
FirstGetterAhead(rid) == ~(cons2[rid].pc = "wait_progress" /\ cons2[rid].ahead)

\* the second task, awaiting __progress_queue.get(), is woken by a put;
\* Queue wakes its getters in the order they began to wait
OtherProgressResume(rid) ==
    /\ cons2[rid].pc = "wait_progress"
    /\ progress_queue[rid].items # <<>>
    /\ cons2[rid].ahead \/ cons_pc[rid] # "wait_progress"
    /\ OtherBody(rid)
    /\ UNCHANGED <<call_sent, sent_messages, receive_progress>>
    /\ Other2Unchanged

\* Call.cancel, up to the suspension in send: the future and the CANCEL
CallCancel(rid) ==
    /\ result_fut' = [result_fut EXCEPT ![rid] = FutCancel(@)]
    /\ IF call_sent[rid]
       THEN Send(Msg("CANCEL", rid, cancel_mode[rid], 0))
       ELSE UNCHANGED sent_messages

\* the task awaiting Call.result is cancelled (Task.cancel).  Awaiting the
\* pending __result_fut, the task's cancel cancels that future and result()
\* then sees self.cancelled; otherwise CancelledError is thrown into result()
\* with the future not cancelled, and result() awaits self.cancel().
TaskCancel(rid) ==
    /\ cons_pc[rid] \in {"send_result", "wait_result"}
    /\ result_fut[rid].st # "cancelled"
    /\ CountSent("CANCEL", rid) < MaxCancels
    /\ task_cancel' = [task_cancel EXCEPT ![rid] =
           IF cons_pc[rid] = "send_result" THEN "in_send"
           ELSE IF result_fut[rid].st = "pending" THEN "awaiting" ELSE "after_reply"]
    /\ IF cons_pc[rid] = "wait_result" /\ result_fut[rid].st = "pending"
       THEN /\ result_fut' = [result_fut EXCEPT ![rid] = FutCancel(@)]
            /\ UNCHANGED <<sent_messages, cons_pc>>
       ELSE /\ CallCancel(rid)
            /\ cons_pc' = [cons_pc EXCEPT ![rid] = "send_cancel"]
    /\ UNCHANGED <<clientVars, call_sent, progress_queue, progress_handler, receive_progress,
                   cancel_mode, handled, response_ops, cons_out, yielded, awaited, cons2, subVars,
                   receive_queue, closed, router_count, sessionVars, join, regVars, invVars,
                   libVars>>

\* `await self.session.send(Cancel)` returns inside result()'s handler:
\* __next_final ends at once on the done future, result() re-raises
CancelSendReturns(rid) ==
    /\ cons_pc[rid] = "send_cancel"
    /\ cons_pc' = [cons_pc EXCEPT ![rid] = "done"]
    /\ cons_out' = [cons_out EXCEPT ![rid] = "CancelledError"]
    /\ UNCHANGED <<clientVars, callVars, yielded, awaited, task_cancel, cons2, subVars,
                   transportVars, sessionVars, join, regVars, invVars, libVars>>

\* Call.cancel called by user code
UserCancel(rid) ==
    /\ result_fut[rid].st # "none"
    /\ CountSent("CANCEL", rid) < MaxCancels
    /\ result_fut[rid].st = "pending" \/ call_sent[rid]
    /\ CallCancel(rid)
    /\ UNCHANGED <<clientVars, call_sent, progress_queue, progress_handler, receive_progress,
                   cancel_mode, handled, response_ops, consVars, subVars, receive_queue, closed,
                   router_count, sessionVars, join, regVars, invVars, libVars>>

\* mutant of Kill: no `if self.done: return`
KillUnchecked(f) == [st |-> "exception", val |-> "ClientClosed"]

\* Call.kill
Kill(f) == IF f.st = "pending" THEN [st |-> "exception", val |-> "ClientClosed"] ELSE f

KillQueue(rid) ==
    IF result_fut[rid].st = "pending" /\ progress_queue[rid].made
    THEN [made |-> TRUE, items |-> Append(progress_queue[rid].items, 0)]
    ELSE progress_queue[rid]

\* mutant of HandleResponseDone: an ERROR is not reported as the end
HandleResponseDoneResultOnly(rid, m) ==
    result_fut[rid].st # "pending" \/ (m.t = "RESULT" /\ m.arg # "progress")

\* Call.handle_response: its return value and what it leaves in the Call
HandleResponseDone(rid, m) ==
    result_fut[rid].st # "pending" \/ ~(m.t = "RESULT" /\ m.arg = "progress")

HandleResponseFut(rid, m) ==
    IF result_fut[rid].st # "pending" \/ (m.t = "RESULT" /\ m.arg = "progress")
    THEN result_fut[rid]
    ELSE IF m.t \in {"RESULT", "ERROR"}
         THEN [st |-> "result", val |-> m.t]
         ELSE [st |-> "exception", val |-> "UnexpectedMessageError"]

HandleResponseQueue(rid, m) ==
    IF result_fut[rid].st # "pending" \/ ~progress_queue[rid].made
    THEN progress_queue[rid]
    ELSE [made |-> TRUE,
          items |-> Append(progress_queue[rid].items,
                           IF m.t = "RESULT" /\ m.arg = "progress" THEN m.n ELSE 0)]

\* __handle_message with the body of Call.handle_response: the statements
\* that touch the result future and the ongoing_calls entry, in program order
HandleResponseOpsDelFirst(rid, m) ==
    IF result_fut[rid].st # "pending" THEN <<"del">>
    ELSE IF m.t = "RESULT" /\ m.arg = "progress" THEN <<>>
    ELSE IF m.t \in {"RESULT", "ERROR"} THEN <<"del", "set_result">>
    ELSE <<"del", "set_exception">>

HandleResponseOps(rid, m) ==
    IF result_fut[rid].st # "pending" THEN <<"del">>
    ELSE IF m.t = "RESULT" /\ m.arg = "progress" THEN <<>>
    ELSE IF m.t \in {"RESULT", "ERROR"} THEN <<"set_result", "del">>
    ELSE <<"set_exception", "del">>

\* Call.__handle_progress: the progress handler is run in the background
HandleResponseHandled(rid, m) ==
    IF result_fut[rid].st = "pending" /\ m.t = "RESULT" /\ m.arg = "progress"
       /\ progress_handler[rid]
    THEN Append(handled[rid], m.n)
    ELSE handled[rid]


\* ------------------------------------------------------ client/client.py
\* Client.subscribe up to the suspension in send: the waiter is recorded by
\* _expecting_response, then SUBSCRIBE is written
Subscribe(topic) ==
    LET rid == IDGenerator_next(id_gen) IN
    /\ client_close = ""
    /\ id_gen < MaxId
    /\ id_gen' = rid
    /\ reply_fut' = [reply_fut EXCEPT ![rid] = [st |-> "pending", val |-> "", n |-> 0]]
    /\ awaiting_reply' = awaiting_reply \cup {rid}
    /\ Send(Msg("SUBSCRIBE", rid, "", 0))
    /\ sub_pc' = [sub_pc EXCEPT ![rid] = "send"]
    /\ req_arg' = [req_arg EXCEPT ![rid] = [uri |-> topic, id |-> 0, call |-> 0]]
    /\ UNCHANGED <<ongoing_calls, sub_handlers, client_close, callVars, consVars, sub_out,
                   receive_queue, closed, router_count, sessionVars, join, procedure_ids,
                   procedures, sub_ids, sub_callback, req_pc, req_kind, req_out, gather_queue,
                   api_log, invVars, libVars>>

\* _add_to_array
AddToArray(d, key, value) == [d EXCEPT ![key] = [has |-> TRUE, ids |-> Append(@.ids, value)]]

\* Client.subscribe after `await fut` of _expecting_response: the entry is
\* deleted, the reply checked by check_message_response, the subscription id
\* added to the topic's array and the handler recorded
SubscribeFinish(rid) ==
    /\ awaiting_reply' = awaiting_reply \ {rid}
    /\ sub_pc' = [sub_pc EXCEPT ![rid] = "done"]
    /\ sub_out' = [sub_out EXCEPT ![rid] =
           CASE reply_fut[rid].st = "exception" -> reply_fut[rid].val
             [] reply_fut[rid].val = "SUBSCRIBED" -> "subscribed"
             [] reply_fut[rid].val = "ERROR" -> "ErrorResponse"
             [] OTHER -> "UnexpectedMessageError"]
    /\ IF reply_fut[rid].st = "result" /\ reply_fut[rid].val = "SUBSCRIBED"
       THEN /\ sub_handlers' = sub_handlers \cup {reply_fut[rid].n}
            /\ sub_ids' = AddToArray(sub_ids, req_arg[rid].uri, reply_fut[rid].n)
            /\ sub_callback' = [sub_callback EXCEPT ![reply_fut[rid].n] = rid]
       ELSE UNCHANGED <<sub_handlers, sub_ids, sub_callback>>

\* `await self.session.send(Subscribe)` returns
SubscribeSendReturns(rid) ==
    /\ sub_pc[rid] = "send"
    /\ IF Done(reply_fut[rid])
       THEN SubscribeFinish(rid)
       ELSE /\ sub_pc' = [sub_pc EXCEPT ![rid] = "wait"]
            /\ UNCHANGED <<awaiting_reply, sub_handlers, sub_out, sub_ids, sub_callback>>
    /\ UNCHANGED <<id_gen, ongoing_calls, reply_fut, client_close, callVars, consVars,
                   transportVars, sessionVars, join, procedure_ids, procedures, req_pc,
                   req_kind, req_arg, req_out, gather_queue, api_log, invVars, libVars>>

\* the task awaiting the waiter future is woken
SubscribeResume(rid) ==
    /\ sub_pc[rid] = "wait"
    /\ Done(reply_fut[rid])
    /\ SubscribeFinish(rid)
    /\ UNCHANGED <<id_gen, ongoing_calls, reply_fut, client_close, callVars, consVars,
                   transportVars, sessionVars, join, procedure_ids, procedures, req_pc,
                   req_kind, req_arg, req_out, gather_queue, api_log, invVars, libVars>>

\* ------------------------------------------------- single-shot requests
\* the message type that answers a request of this kind
OkType(kind) ==
    CASE kind = "register" -> "REGISTERED"
      [] kind = "unregister" -> "UNREGISTERED"
      [] kind = "unsubscribe" -> "UNSUBSCRIBED"
      [] OTHER -> "PUBLISHED"

\* mutant of CheckMessageResponse: an ERROR passes for the expected type
CheckMessageResponseNoError(fut, ok_type) ==
    CASE fut.st = "exception" -> fut.val
      [] fut.val \in {ok_type, "ERROR"} -> "ok"
      [] OTHER -> "UnexpectedMessageError"

\* check_message_response applied to `await resp`: the outcome of the request
CheckMessageResponse(fut, ok_type) ==
    CASE fut.st = "exception" -> fut.val
      [] fut.val = ok_type -> "ok"
      [] fut.val = "ERROR" -> "ErrorResponse"
      [] OTHER -> "UnexpectedMessageError"

\* mutant of ExpectAndSend: the request is written before the waiter is
\* recorded; the waiter is missing while the task is suspended in the send
ExpectAndSendUnrecorded(rid, kind, arg, m) ==
    /\ id_gen < MaxReqId
    /\ id_gen' = rid
    /\ reply_fut' = [reply_fut EXCEPT ![rid] = [st |-> "pending", val |-> "", n |-> 0]]
    /\ awaiting_reply' = awaiting_reply
    /\ Send(m)
    /\ req_pc' = [req_pc EXCEPT ![rid] = "send"]
    /\ req_kind' = [req_kind EXCEPT ![rid] = kind]
    /\ req_arg' = [req_arg EXCEPT ![rid] = arg]

\* next(self.id_gen), then `async with self._expecting_response(req_id)` up to
\* the suspension in session.send: the waiter is recorded, the request written
ExpectAndSend(rid, kind, arg, m) ==
    /\ id_gen < MaxReqId
    /\ id_gen' = rid
    /\ reply_fut' = [reply_fut EXCEPT ![rid] = [st |-> "pending", val |-> "", n |-> 0]]
    /\ awaiting_reply' = awaiting_reply \cup {rid}
    /\ Send(m)
    /\ req_pc' = [req_pc EXCEPT ![rid] = "send"]
    /\ req_kind' = [req_kind EXCEPT ![rid] = kind]
    /\ req_arg' = [req_arg EXCEPT ![rid] = arg]

\* the request after `await fut` of _expecting_response: the entry is deleted
\* and the reply checked; register then records the registration
RequestFinish(rid) ==
    LET out == CheckMessageResponse(reply_fut[rid], OkType(req_kind[rid])) IN
    /\ awaiting_reply' = awaiting_reply \ {rid}
    /\ req_pc' = [req_pc EXCEPT ![rid] = "done"]
    /\ req_out' = [req_out EXCEPT ![rid] = out]
    /\ IF req_kind[rid] = "register" /\ out = "ok"
       THEN /\ procedure_ids' = AddToArray(procedure_ids, req_arg[rid].uri, reply_fut[rid].n)
            /\ procedures' = procedures \cup {reply_fut[rid].n}
       ELSE UNCHANGED <<procedure_ids, procedures>>

\* `await self.session.send(...)` of a request returns
RequestSendReturns(rid) ==
    /\ req_pc[rid] = "send"
    /\ IF Done(reply_fut[rid])
       THEN RequestFinish(rid)
       ELSE /\ req_pc' = [req_pc EXCEPT ![rid] = "wait"]
            /\ UNCHANGED <<awaiting_reply, req_out, procedure_ids, procedures>>
    /\ UNCHANGED <<id_gen, ongoing_calls, sub_handlers, reply_fut, client_close, callVars,
                   consVars, subVars, transportVars, sessionVars, join, sub_ids,
                   sub_callback, req_kind, req_arg, gather_queue, api_log, invVars, libVars>>

\* the task awaiting the waiter future is woken
RequestResume(rid) ==
    /\ req_pc[rid] = "wait"
    /\ Done(reply_fut[rid])
    /\ RequestFinish(rid)
    /\ UNCHANGED <<id_gen, ongoing_calls, sub_handlers, reply_fut, client_close, callVars,
                   consVars, subVars, transportVars, sessionVars, join, sub_ids,
                   sub_callback, req_kind, req_arg, gather_queue, api_log, invVars, libVars>>

\* Client.register up to the suspension in send
Register(uri) ==
    LET rid == IDGenerator_next(id_gen) IN
    /\ client_close = ""
    /\ ExpectAndSend(rid, "register", [uri |-> uri, id |-> 0, call |-> 0], Msg("REGISTER", rid, "", 0))
    /\ UNCHANGED <<ongoing_calls, sub_handlers, client_close, callVars, consVars, subVars,
                   receive_queue, closed, router_count, sessionVars, join, procedure_ids,
                   procedures, sub_ids, sub_callback, req_out, gather_queue, api_log,
                   invVars, libVars>>

\* array.remove: the first occurrence, ValueError (suppressed) when absent
RemoveFirst(a, v) ==
    IF \E i \in 1..Len(a) : a[i] = v
    THEN LET i == CHOOSE k \in 1..Len(a) : a[k] = v /\ \A j \in 1..(k - 1) : a[j] # v
         IN SubSeq(a, 1, i - 1) \o SubSeq(a, i + 1, Len(a))
    ELSE a

\* `self.__sub_ids[topic].remove(id)` or `self.__procedure_ids[procedure].remove(id)`
\* under suppress(KeyError, ValueError)
RemoveFromArray(d, key, value) ==
    IF d[key].has THEN [d EXCEPT ![key].ids = RemoveFirst(@, value)] ELSE d

\* a call of unregister or unsubscribe: its arguments, how it began (KeyError,
\* the tasks of gather, or the request written), the ids it went on to work
\* with, and the ids the URI had when it was made (registrations for
\* unregister, subscriptions for unsubscribe)
ApiCall(op, uri, id, out, ids, had) ==
    [op |-> op, uri |-> uri, id |-> id, out |-> out, ids |-> ids, had |-> had]

\* mutant of GatherTasks: only the first id gets a task
GatherTasksFirstOnly(kind, ids, call) ==
    [i \in 1..(IF ids = <<>> THEN 0 ELSE 1) |-> [kind |-> kind, id |-> ids[i], call |-> call]]

\* the tasks asyncio.gather makes of the coroutines, in the order of the ids;
\* `call` numbers the call of unregister or unsubscribe they belong to
GatherTasks(kind, ids, call) ==
    [i \in 1..Len(ids) |-> [kind |-> kind, id |-> ids[i], call |-> call]]

\* Client.unregister(procedure): the URI's array is popped and one
\* __unregister task is made per id; KeyError when the URI has no array
UnregisterAll(procedure) ==
    /\ client_close = ""
    /\ Len(api_log) < MaxApiCalls
    /\ IF ~procedure_ids[procedure].has
       THEN /\ api_log' = Append(api_log, ApiCall("unregister", procedure, 0, "KeyError", <<>>, <<>>))
            /\ UNCHANGED <<procedure_ids, gather_queue>>
       ELSE LET reg_ids == procedure_ids[procedure].ids IN
            /\ id_gen + Len(gather_queue) + Len(reg_ids) <= MaxReqId
            /\ procedure_ids' = [procedure_ids EXCEPT ![procedure] = NoArray]
            /\ gather_queue' = gather_queue \o GatherTasks("unregister", reg_ids, Len(api_log) + 1)
            /\ api_log' = Append(api_log, ApiCall("unregister", procedure, 0, "gather", reg_ids,
                                                  reg_ids))
    /\ UNCHANGED <<clientVars, callVars, consVars, subVars, transportVars, sessionVars, join,
                   procedures, sub_ids, sub_callback, req_pc, req_kind, req_arg, req_out,
                   invVars, libVars>>

\* Client.unregister(procedure, registration_id) up to the suspension in send:
\* KeyError for an id without a handler; else the id leaves the URI's array
\* and __unregister deletes the handler and writes UNREGISTER
UnregisterId(procedure, registration_id) ==
    LET rid == IDGenerator_next(id_gen) IN
    /\ client_close = ""
    /\ Len(api_log) < MaxApiCalls
    /\ IF registration_id \notin procedures
       THEN /\ api_log' = Append(api_log, ApiCall("unregister", procedure, registration_id,
                                                  "KeyError", <<>>,
                                                  procedure_ids[procedure].ids))
            /\ UNCHANGED <<id_gen, awaiting_reply, reply_fut, sent_messages, procedure_ids,
                           procedures, req_pc, req_kind, req_arg>>
       ELSE /\ api_log' = Append(api_log, ApiCall("unregister", procedure, registration_id,
                                                  "sent", <<registration_id>>,
                                                  procedure_ids[procedure].ids))
            /\ procedure_ids' = RemoveFromArray(procedure_ids, procedure, registration_id)
            /\ procedures' = procedures \ {registration_id}
            /\ ExpectAndSend(rid, "unregister",
                             [uri |-> procedure, id |-> registration_id,
                              call |-> Len(api_log) + 1],
                             MsgFor("UNREGISTER", rid, "", 0, registration_id))
    /\ UNCHANGED <<ongoing_calls, sub_handlers, client_close, callVars, consVars, subVars,
                   receive_queue, closed, router_count, sessionVars, join, sub_ids,
                   sub_callback, req_out, gather_queue, invVars, libVars>>

\* Client.unsubscribe(topic): the array popped is the one of __procedure_ids
UnsubscribeAll(topic) ==
    /\ client_close = ""
    /\ Len(api_log) < MaxApiCalls
    /\ IF ~procedure_ids[topic].has
       THEN /\ api_log' = Append(api_log, ApiCall("unsubscribe", topic, 0, "KeyError", <<>>,
                                            sub_ids[topic].ids))
            /\ UNCHANGED <<procedure_ids, gather_queue>>
       ELSE LET sub_ids_popped == procedure_ids[topic].ids IN
            /\ id_gen + Len(gather_queue) + Len(sub_ids_popped) <= MaxReqId
            /\ procedure_ids' = [procedure_ids EXCEPT ![topic] = NoArray]
            /\ gather_queue' = gather_queue \o GatherTasks("unsubscribe", sub_ids_popped, Len(api_log) + 1)
            /\ api_log' = Append(api_log, ApiCall("unsubscribe", topic, 0, "gather",
                                                  sub_ids_popped, sub_ids[topic].ids))
    /\ UNCHANGED <<clientVars, callVars, consVars, subVars, transportVars, sessionVars, join,
                   procedures, sub_ids, sub_callback, req_pc, req_kind, req_arg, req_out,
                   invVars, libVars>>

\* Client.unsubscribe(topic, subscription_id) up to the suspension in send:
\* the id is looked up in __procedures; then it leaves the topic's array and
\* __unsubscribe deletes the handler and writes UNSUBSCRIBE
UnsubscribeId(topic, subscription_id) ==
    LET rid == IDGenerator_next(id_gen) IN
    /\ client_close = ""
    /\ Len(api_log) < MaxApiCalls
    /\ IF subscription_id \notin procedures
       THEN /\ api_log' = Append(api_log, ApiCall("unsubscribe", topic, subscription_id,
                                                  "KeyError", <<>>, sub_ids[topic].ids))
            /\ UNCHANGED <<id_gen, awaiting_reply, reply_fut, sent_messages, sub_ids,
                           sub_handlers, sub_callback, req_pc, req_kind, req_arg>>
       ELSE /\ api_log' = Append(api_log, ApiCall("unsubscribe", topic, subscription_id,
                                                  "sent", <<subscription_id>>,
                                                  sub_ids[topic].ids))
            /\ sub_ids' = RemoveFromArray(sub_ids, topic, subscription_id)
            /\ sub_handlers' = sub_handlers \ {subscription_id}
            /\ sub_callback' = [sub_callback EXCEPT ![subscription_id] = 0]
            /\ ExpectAndSend(rid, "unsubscribe",
                             [uri |-> topic, id |-> subscription_id,
                              call |-> Len(api_log) + 1],
                             MsgFor("UNSUBSCRIBE", rid, "", 0, subscription_id))
    /\ UNCHANGED <<ongoing_calls, client_close, callVars, consVars, subVars,
                   receive_queue, closed, router_count, sessionVars, join, procedure_ids,
                   procedures, req_out, gather_queue, invVars, libVars>>

\* a task of gather starts: Client.__unregister or Client.__unsubscribe up to
\* the suspension in send
GatherTaskStart ==
    /\ gather_queue # <<>>
    /\ LET task == Head(gather_queue)
           rid == IDGenerator_next(id_gen)
       IN /\ gather_queue' = Tail(gather_queue)
          /\ IF task.kind = "unregister"
             THEN /\ procedures' = procedures \ {task.id}
                  /\ UNCHANGED <<sub_handlers, sub_callback>>
                  /\ ExpectAndSend(rid, "unregister",
                                   [uri |-> "", id |-> task.id, call |-> task.call],
                                   MsgFor("UNREGISTER", rid, "", 0, task.id))
             ELSE /\ sub_handlers' = sub_handlers \ {task.id}
                  /\ sub_callback' = [sub_callback EXCEPT ![task.id] = 0]
                  /\ UNCHANGED procedures
                  /\ ExpectAndSend(rid, "unsubscribe",
                                   [uri |-> "", id |-> task.id, call |-> task.call],
                                   MsgFor("UNSUBSCRIBE", rid, "", 0, task.id))
    /\ UNCHANGED <<ongoing_calls, client_close, callVars, consVars, subVars,
                   receive_queue, closed, router_count, sessionVars, join, procedure_ids,
                   sub_ids, req_out, api_log, invVars, libVars>>

\* Client.publish up to the suspension in send.  Without acknowledge the
\* PUBLISH is written and nothing is recorded; with it the waiter is recorded
\* by _expecting_response before the write
Publish(acknowledge) ==
    LET rid == IDGenerator_next(id_gen) IN
    /\ client_close = ""
    /\ IF acknowledge # "true"
       THEN /\ id_gen < MaxReqId
            /\ id_gen' = rid
            /\ Send(Msg("PUBLISH", rid, acknowledge, 0))
            /\ req_pc' = [req_pc EXCEPT ![rid] = "send_only"]
            /\ req_kind' = [req_kind EXCEPT ![rid] = "publish"]
            /\ UNCHANGED <<reply_fut, awaiting_reply, req_arg>>
       ELSE ExpectAndSend(rid, "publish", NoArg, Msg("PUBLISH", rid, acknowledge, 0))
    /\ UNCHANGED <<ongoing_calls, sub_handlers, client_close, callVars, consVars, subVars,
                   receive_queue, closed, router_count, sessionVars, join, procedure_ids,
                   procedures, sub_ids, sub_callback, req_out, gather_queue, api_log,
                   invVars, libVars>>

\* `await send_coro` of a publish without acknowledge returns, and publish returns
PublishSendReturns(rid) ==
    /\ req_pc[rid] = "send_only"
    /\ req_pc' = [req_pc EXCEPT ![rid] = "done"]
    /\ req_out' = [req_out EXCEPT ![rid] = "ok"]
    /\ UNCHANGED <<clientVars, callVars, consVars, subVars, transportVars, sessionVars, join,
                   procedure_ids, procedures, sub_ids, sub_callback, req_kind, req_arg,
                   gather_queue, api_log, invVars, libVars>>

\* Invocation.__init__
InvocationInit(msg) ==
    [pc |-> "running", done |-> FALSE, progress |-> (msg.arg = "progress"),
     interrupt |-> FALSE, calls |-> <<>>, runner |-> NoRunner]

\* mutant of HandleInvocation: the runner is not recorded
HandleInvocationUnrecorded(m) ==
    IF m.reg \notin procedures
    THEN /\ Send(Msg("ERROR", m.id, INVALID_ARGUMENT, 0))
         /\ UNCHANGED <<running_procedures, inv>>
    ELSE /\ inv' = [inv EXCEPT ![m.id] = InvocationInit(m)]
         /\ UNCHANGED <<running_procedures, sent_messages>>

\* mutant of HandleInvocation: an INVOCATION of an unknown registration is
\* dropped without an answer
HandleInvocationSilent(m) ==
    IF m.reg \notin procedures
    THEN UNCHANGED <<sent_messages, running_procedures, inv>>
    ELSE /\ running_procedures' = running_procedures \cup {m.id}
         /\ inv' = [inv EXCEPT ![m.id] = InvocationInit(m)]
         /\ UNCHANGED sent_messages

\* Client.__handle_invocation up to its first suspension: an unknown
\* registration is answered with an ERROR; else the Invocation and the runner
\* are made and the runner is recorded under the invocation's request id
\* (the handlers of this model are ones the runner factory accepts)
HandleInvocation(m) ==
    IF m.reg \notin procedures
    THEN /\ Send(Msg("ERROR", m.id, INVALID_ARGUMENT, 0))
         /\ UNCHANGED <<running_procedures, inv>>
    ELSE /\ running_procedures' = running_procedures \cup {m.id}
         /\ inv' = [inv EXCEPT ![m.id] = InvocationInit(m)]
         /\ UNCHANGED sent_messages

\* Client.__handle_interrupt: the runner of a running invocation is interrupted
HandleInterrupt(m) ==
    /\ inv' = IF m.id \in running_procedures
              THEN [inv EXCEPT ![m.id].interrupt = TRUE]
              ELSE inv
    /\ UNCHANGED <<running_procedures, sent_messages>>

\* mutant of HandleEvent: an EVENT for an unknown subscription goes to the
\* callback of a subscribe that is still waiting for its acknowledgement
HandleEventAnyCallback(m) ==
    IF m.reg \in sub_handlers
    THEN Append(event_log, [n |-> m.n, sub |-> m.reg, callback |-> sub_callback[m.reg],
                            raised |-> (m.arg = "raise")])
    ELSE IF \E r \in Ids : sub_pc[r] \in {"send", "wait"}
    THEN Append(event_log, [n |-> m.n, sub |-> m.reg,
                            callback |-> CHOOSE r \in Ids : sub_pc[r] \in {"send", "wait"},
                            raised |-> (m.arg = "raise")])
    ELSE event_log

\* mutant of HandleEvent: after a handler raised no handler is called
HandleEventUntilError(m) ==
    IF m.reg \in sub_handlers /\ \A i \in 1..Len(event_log) : ~event_log[i].raised
    THEN Append(event_log, [n |-> m.n, sub |-> m.reg, callback |-> sub_callback[m.reg],
                            raised |-> (m.arg = "raise")])
    ELSE event_log

\* Client.__handle_message for an EVENT: the handler recorded for the
\* subscription id is called, an unknown id is logged.  The handler raises
\* on an event whose payload makes it ("raise"); the exception ends the task
\* emit made for the message
HandleEvent(m) ==
    IF m.reg \in sub_handlers
    THEN Append(event_log, [n |-> m.n, sub |-> m.reg, callback |-> sub_callback[m.reg],
                            raised |-> (m.arg = "raise")])
    ELSE event_log

\* Client.__handle_message, run as the task emit made for the message
HandleMessage ==
    /\ emitted # <<>>
    /\ LET m == Head(emitted) IN
       /\ emitted' = Tail(emitted)
       /\ dispatched' = Append(dispatched, m)
       /\ IF m.t = "INVOCATION"
          THEN /\ HandleInvocation(m)
               /\ UNCHANGED <<reply_fut, ongoing_calls, result_fut, progress_queue, handled, response_ops,
                              event_log>>
          ELSE IF m.t = "INTERRUPT"
          THEN /\ HandleInterrupt(m)
               /\ UNCHANGED <<reply_fut, ongoing_calls, result_fut, progress_queue, handled, response_ops,
                              event_log>>
          ELSE IF HasRequestId(m) /\ m.id \in awaiting_reply
          THEN \* waiter.set_result(msg); InvalidStateError on a done future
               /\ reply_fut' = [reply_fut EXCEPT ![m.id] =
                      IF @.st = "pending" THEN [st |-> "result", val |-> m.t, n |-> m.n] ELSE @]
               /\ UNCHANGED <<ongoing_calls, result_fut, progress_queue, handled, response_ops,
                              sent_messages, invVars>>
          ELSE IF HasRequestId(m) /\ m.id \in ongoing_calls
          THEN /\ result_fut' = [result_fut EXCEPT ![m.id] = HandleResponseFut(m.id, m)]
               /\ progress_queue' = [progress_queue EXCEPT ![m.id] = HandleResponseQueue(m.id, m)]
               /\ handled' = [handled EXCEPT ![m.id] = HandleResponseHandled(m.id, m)]
               /\ response_ops' = [response_ops EXCEPT ![m.id] = @ \o HandleResponseOps(m.id, m)]
               /\ ongoing_calls' = IF HandleResponseDone(m.id, m)
                                   THEN ongoing_calls \ {m.id}
                                   ELSE ongoing_calls
               /\ UNCHANGED <<reply_fut, sent_messages, invVars>>
          ELSE /\ event_log' = IF m.t = "EVENT" THEN HandleEvent(m) ELSE event_log
               /\ UNCHANGED <<reply_fut, ongoing_calls, result_fut, progress_queue, handled, response_ops,
                              sent_messages, running_procedures, inv>>
    /\ UNCHANGED <<id_gen, awaiting_reply, sub_handlers, client_close, call_sent,
                   progress_handler, receive_progress, cancel_mode, consVars, subVars,
                   receive_queue, closed, router_count, goodbye_fut, receive_task, attached,
                   close_pc, join, regVars, libVars>>

\* Client._cleanup: the waiters of awaiting_reply in insertion order;
\* set_exception raises InvalidStateError on the first that is already done
CleanupBad == {r \in awaiting_reply : Done(reply_fut[r])}

CleanupFirstBad == CHOOSE r \in CleanupBad : \A q \in CleanupBad : r <= q

Cleanup ==
    /\ attached' = FALSE
    /\ procedure_ids' = [u \in URIs |-> NoArray]
    /\ procedures' = {}
    /\ inv' = [r \in Ids |-> IF r \in running_procedures /\ inv[r].pc = "running"
                              THEN [inv[r] EXCEPT !.pc = "cancelled"]
                              ELSE inv[r]]
    /\ running_procedures' = {}
    /\ sub_handlers' = {}
    /\ sub_callback' = [i \in Serials |-> 0]
    /\ sub_ids' = [u \in URIs |-> NoArray]
    /\ result_fut' = [r \in Ids |-> IF r \in ongoing_calls THEN Kill(result_fut[r])
                                     ELSE result_fut[r]]
    /\ progress_queue' = [r \in Ids |-> IF r \in ongoing_calls THEN KillQueue(r)
                                         ELSE progress_queue[r]]
    /\ ongoing_calls' = {}
    /\ IF CleanupBad = {}
       THEN /\ reply_fut' = [r \in Ids |-> IF r \in awaiting_reply
                                           THEN [st |-> "exception", val |-> "ClientClosed", n |-> 0]
                                           ELSE reply_fut[r]]
            /\ awaiting_reply' = {}
       ELSE /\ reply_fut' = [r \in Ids |-> IF r \in awaiting_reply /\ r < CleanupFirstBad
                                           THEN [st |-> "exception", val |-> "ClientClosed", n |-> 0]
                                           ELSE reply_fut[r]]
            /\ UNCHANGED awaiting_reply

\* Client.close: session.close(details, reason=reason) raises TypeError when
\* called (Session.close has no parameter `reason`), before anything is sent;
\* the finally clause runs _cleanup and the exception goes to the caller
ClientClose ==
    /\ client_close = ""
    /\ Cleanup
    /\ client_close' = IF CleanupBad = {} THEN "TypeError" ELSE "InvalidStateError"
    /\ UNCHANGED <<id_gen, call_sent, progress_handler, receive_progress, cancel_mode,
                   handled, response_ops, consVars, subVars, transportVars, goodbye_fut, receive_task,
                   emitted, dispatched, close_pc, join, req_pc, req_kind, req_arg, req_out,
                   gather_queue, api_log, event_log, libVars>>


\* ------------------------------------------------- client/invocation.py
\* the record of a call of a send method and how it ended
InvCalled(rid, op, out) == [inv[rid] EXCEPT !.calls = Append(@, [op |-> op, out |-> out])]

\* InvocationABC.may_send_progress: details["receive_progress"], False when absent
MaySendProgress(rid) == inv[rid].progress

\* Invocation.send_progress: RuntimeError when done or when the caller takes
\* no progress, else a YIELD with options.progress
InvSendProgress(rid) ==
    /\ inv[rid].pc = "running"
    /\ Len(inv[rid].calls) < MaxInvSends
    /\ IF inv[rid].done \/ ~MaySendProgress(rid)
       THEN /\ inv' = [inv EXCEPT ![rid] = InvCalled(rid, "send_progress", "RuntimeError")]
            /\ UNCHANGED sent_messages
       ELSE /\ inv' = [inv EXCEPT ![rid] = InvCalled(rid, "send_progress", "sent")]
            /\ Send(Msg("YIELD", rid, "progress", 0))
    /\ UNCHANGED <<clientVars, callVars, consVars, subVars, receive_queue, closed,
                   router_count, sessionVars, join, regVars, running_procedures, event_log,
                   libVars>>

\* mutant of MarkDone: the invocation is never marked
MarkDoneNever(i) == i

\* Invocation.__mark_done, after __assert_not_done passed
MarkDone(i) == [i EXCEPT !.done = TRUE]

\* Invocation.send_result and Invocation.send_error: __mark_done raises
\* RuntimeError when done; else the invocation is marked and the final YIELD
\* (without progress) or the ERROR is written
InvSendFinal(rid, op) ==
    /\ inv[rid].pc = "running"
    /\ Len(inv[rid].calls) < MaxInvSends
    /\ IF inv[rid].done
       THEN /\ inv' = [inv EXCEPT ![rid] = InvCalled(rid, op, "RuntimeError")]
            /\ UNCHANGED sent_messages
       ELSE /\ inv' = [inv EXCEPT ![rid] = MarkDone(InvCalled(rid, op, "sent"))]
            /\ Send(IF op = "send_result" THEN Msg("YIELD", rid, "", 0)
                                          ELSE Msg("ERROR", rid, "app.error", 0))
    /\ UNCHANGED <<clientVars, callVars, consVars, subVars, receive_queue, closed,
                   router_count, sessionVars, join, regVars, running_procedures, event_log,
                   libVars>>

InvSendResult(rid) == InvSendFinal(rid, "send_result")

InvSendError(rid) == InvSendFinal(rid, "send_error")

\* an Invocation made for an INVOCATION message, as the tests make one
MakeInvocation(rid, progress) ==
    /\ inv[rid].pc = "none"
    /\ inv' = [inv EXCEPT ![rid] = InvocationInit(MsgFor("INVOCATION", rid, progress, 0, 0))]
    /\ UNCHANGED <<clientVars, callVars, consVars, subVars, transportVars, sessionVars, join,
                   regVars, running_procedures, event_log, libVars>>

\* Client.__handle_invocation after `await runner`: the finally clause deletes
\* the entry of __running_procedures, KeyError when _cleanup cleared the map
InvocationDone(rid) ==
    /\ inv[rid].pc \in {"running", "cancelled"}
    /\ IF rid \in running_procedures
       THEN /\ running_procedures' = running_procedures \ {rid}
            /\ inv' = [inv EXCEPT ![rid].pc = "done"]
       ELSE /\ inv' = [inv EXCEPT ![rid].pc = "failed"]
            /\ UNCHANGED running_procedures
    /\ UNCHANGED <<clientVars, callVars, consVars, subVars, transportVars, sessionVars, join,
                   regVars, event_log, libVars>>


\* ---------------------------------------------- the async-generator runner
\* what an async-generator handler yields: for each value, whether it is
\* wrapped in InvocationProgress; a value is named by its position
GenScripts == UNION {[1..n -> BOOLEAN] : n \in 1..MaxYields}

\* mutant of FinalYieldArg: the last value goes out as progress too
FinalYieldArgProgress == "progress"

\* the payload field of the YIELD that ends the invocation: no progress flag
FinalYieldArg == ""

\* the Invocation and its runner after the runner wrote value v through
\* send_progress or send_result
RunnerWrote(i, op, v) ==
    [i EXCEPT !.calls = Append(@, [op |-> op, out |-> "sent"]),
              !.runner.values = Append(@, v)]

\* the value a handler produces after it caught an Interrupt
RecoveryValue == MaxYields + 1

\* the runner is made for an Invocation and a handler: a coroutine, an async
\* generator or an awaitable (a handler that is not an async generator ends
\* with one value); the handler catches an Interrupt or lets it propagate
HandlerStart(rid, kind, gen, catches) ==
    /\ inv[rid].pc = "running"
    /\ inv[rid].runner.pc = "none"
    /\ inv' = [inv EXCEPT ![rid].runner =
           [NoRunner EXCEPT !.pc = "next", !.kind = kind, !.gen = gen, !.catches = catches]]
    /\ UNCHANGED <<clientVars, callVars, consVars, subVars, transportVars, sessionVars, join,
                   regVars, running_procedures, event_log, libVars>>

\* the runner is made for an Invocation and an async generator
RunnerStart(rid, gen) == HandlerStart(rid, "gen", gen, FALSE)

\* the runner takes the next value of the generator.  A plain value is held
\* back and the value held before goes out as progress; a wrapped value goes
\* out as progress at once, after the value held before it; when the
\* generator has ended the value held goes out as the result (an empty result
\* when nothing is held)
RunnerNext(rid) ==
    LET i == inv[rid]
        r == i.runner
        k == r.pos + 1
    IN
    /\ i.pc = "running"
    /\ r.pc = "next"
    /\ ~i.interrupt
    /\ IF k > Len(r.gen)
       THEN IF i.done
            THEN /\ inv' = [inv EXCEPT ![rid].runner.pc = "failed"]
                 /\ UNCHANGED sent_messages
            ELSE /\ inv' = [inv EXCEPT ![rid] =
                        [MarkDone(RunnerWrote(i, "send_result", r.held))
                            EXCEPT !.runner.pc = "done", !.runner.held = 0]]
                 /\ Send(Msg("YIELD", rid, FinalYieldArg, 0))
       ELSE IF r.held = 0 /\ ~r.gen[k]
       THEN /\ inv' = [inv EXCEPT ![rid].runner.pos = k, ![rid].runner.held = k]
            /\ UNCHANGED sent_messages
       ELSE IF i.done \/ ~MaySendProgress(rid)
       THEN /\ inv' = [inv EXCEPT ![rid].runner.pc = "failed"]
            /\ UNCHANGED sent_messages
       ELSE IF r.held # 0
       THEN /\ inv' = [inv EXCEPT ![rid] =
                   [RunnerWrote(i, "send_progress", r.held)
                       EXCEPT !.runner.pos = k,
                              !.runner.held = IF r.gen[k] THEN 0 ELSE k,
                              !.runner.pc = IF r.gen[k] THEN "instant" ELSE "next"]]
            /\ Send(Msg("YIELD", rid, "progress", 0))
       ELSE /\ inv' = [inv EXCEPT ![rid] =
                   [RunnerWrote(i, "send_progress", k) EXCEPT !.runner.pos = k]]
            /\ Send(Msg("YIELD", rid, "progress", 0))
    /\ UNCHANGED <<clientVars, callVars, consVars, subVars, receive_queue, closed,
                   router_count, sessionVars, join, regVars, running_procedures, event_log,
                   libVars>>

\* the wrapped value goes out after the value that was held before it
RunnerInstant(rid) ==
    LET i == inv[rid] IN
    /\ i.pc = "running"
    /\ i.runner.pc = "instant"
    /\ ~i.interrupt
    /\ inv' = [inv EXCEPT ![rid] =
           [RunnerWrote(i, "send_progress", i.runner.pos) EXCEPT !.runner.pc = "next"]]
    /\ Send(Msg("YIELD", rid, "progress", 0))
    /\ UNCHANGED <<clientVars, callVars, consVars, subVars, receive_queue, closed,
                   router_count, sessionVars, join, regVars, running_procedures, event_log,
                   libVars>>

\* mutant of InterruptOutcome: the Interrupt always ends the invocation with
\* an ERROR
InterruptOutcomeAlwaysError(r) == "send_error"

\* how an interrupted handler ends: one that catches the Interrupt produces a
\* value, which is the result; else the Interrupt propagates (an awaitable
\* is cancelled) and the invocation ends with an ERROR
InterruptOutcome(r) ==
    IF r.catches /\ r.kind # "awaitable" THEN "send_result" ELSE "send_error"

\* the Interrupt is injected into a handler that has not ended: what the
\* runner held back is dropped and the handler decides the last message
RunnerInterrupt(rid) ==
    LET i == inv[rid]
        op == InterruptOutcome(i.runner)
    IN
    /\ i.pc = "running"
    /\ i.runner.pc \in {"next", "instant"}
    /\ i.interrupt
    /\ IF i.done
       THEN /\ inv' = [inv EXCEPT ![rid].runner.pc = "failed"]
            /\ UNCHANGED sent_messages
       ELSE /\ inv' = [inv EXCEPT ![rid] =
                   [MarkDone(RunnerWrote(i, op, IF op = "send_result" THEN RecoveryValue ELSE 0))
                       EXCEPT !.runner.pc = "done", !.runner.held = 0,
                              !.runner.interrupted = TRUE]]
            /\ Send(IF op = "send_result" THEN Msg("YIELD", rid, FinalYieldArg, 0)
                                          ELSE Msg("ERROR", rid, CANCELLED, 0))
    /\ UNCHANGED <<clientVars, callVars, consVars, subVars, receive_queue, closed,
                   router_count, sessionVars, join, regVars, running_procedures, event_log,
                   libVars>>


\* ------------------------------------------------------------- the router
\* what the peer may put on the wire next: a reply to a request it has seen,
\* or a GOODBYE
RouterMsgs ==
    LET n == router_count + 1 IN
    {Msg(t, rid, "", n) : t \in {"RESULT", "ERROR", "PUBLISHED"},
                          rid \in {r \in Ids : Written("CALL", r)}}
    \cup {Msg("RESULT", rid, "progress", n) : rid \in {r \in Ids : Written("CALL", r)}}
    \cup {Msg(t, rid, "", n) : t \in {"SUBSCRIBED", "ERROR"},
                               rid \in {r \in Ids : Written("SUBSCRIBE", r)}}
    \cup {Msg("GOODBYE", 0, reason, n) : reason \in {GOODBYE_AND_OUT, SYSTEM_SHUTDOWN}}

\* everything the router has written that the client still holds
RouterSent == dispatched \o emitted \o receive_queue

\* the registration ids the router has handed out
RegisteredIds == {RouterSent[i].n : i \in {k \in 1..Len(RouterSent) : RouterSent[k].t = "REGISTERED"}}

\* the request ids of the invocations the router has made
InvokedIds == {RouterSent[i].id : i \in {k \in 1..Len(RouterSent) : RouterSent[k].t = "INVOCATION"}}

\* replies to REGISTER, UNREGISTER, UNSUBSCRIBE and PUBLISH
RequestReplies(request, ok_type) ==
    {Msg(t, rid, "", router_count + 1) : t \in {ok_type, "ERROR"},
                                        rid \in {r \in Ids : Written(request, r)}}

\* an INVOCATION of a registration, with a request id of the router's own, the
\* caller taking progress or not
Invocations ==
    {MsgFor("INVOCATION", rid, p, router_count + 1, reg) :
         rid \in (1..MaxId) \ InvokedIds, p \in {"", "progress"}, reg \in RegisteredIds}

\* an INVOCATION that names any registration id, one the client holds or not
InvocationsAnyReg ==
    {MsgFor("INVOCATION", rid, p, router_count + 1, reg) :
         rid \in (1..MaxId) \ InvokedIds, p \in {"", "progress"}, reg \in Serials}

\* an INTERRUPT for an invocation the router has made
Interrupts == {Msg("INTERRUPT", rid, CANCEL_KILL, router_count + 1) : rid \in InvokedIds}

\* an EVENT for a subscription id
Events == {MsgFor("EVENT", 0, "", router_count + 1, sub) : sub \in Serials}

\* an EVENT for a subscription id, with a payload the handler takes or one
\* it raises on
EventsOfBothKinds ==
    {MsgFor("EVENT", 0, a, router_count + 1, sub) : sub \in Serials, a \in {"", "raise"}}

\* DummyTransport.mock_receive
RouterSend(m) ==
    /\ router_count < MaxRouterMsgs
    /\ ~closed
    /\ receive_queue' = Append(receive_queue, m)
    /\ router_count' = router_count + 1
    /\ UNCHANGED <<clientVars, callVars, consVars, subVars, sent_messages, closed,
                   sessionVars, join, regVars, invVars, libVars>>

\* ------------------------------------------------------------- session.py
\* mutant of GoodbyeSetResult: the loop goes on after the goodbye
GoodbyeSetResultLoops(reason) ==
    IF goodbye_fut.st = "done"
    THEN /\ UNCHANGED goodbye_fut
         /\ receive_task' = [receive_task EXCEPT !.pc = "failed", !.goodbye = "",
                                                 !.err = "InvalidStateError"]
    ELSE /\ goodbye_fut' = [st |-> "done", val |-> reason]
         /\ receive_task' = [receive_task EXCEPT !.pc = "recv", !.goodbye = ""]

\* Future.set_result on __goodbye_fut, made by __get_goodbye_fut when None
GoodbyeSetResult(reason) ==
    IF goodbye_fut.st = "done"
    THEN /\ UNCHANGED goodbye_fut           \* InvalidStateError
         /\ receive_task' = [receive_task EXCEPT !.pc = "failed", !.goodbye = "",
                                                 !.err = "InvalidStateError"]
    ELSE /\ goodbye_fut' = [st |-> "done", val |-> reason]
         /\ receive_task' = [receive_task EXCEPT !.pc = "done", !.goodbye = ""]

\* mutant of HandleGoodbye: no check of the reason when no close was begun
HandleGoodbyeAnyReason(m) ==
    IF goodbye_fut.st = "none"
    THEN /\ UNCHANGED goodbye_fut
         /\ Send(Msg("GOODBYE", 0, GOODBYE_AND_OUT, 0))
         /\ receive_task' = [receive_task EXCEPT !.pc = "goodbye_send", !.goodbye = m.arg]
    ELSE /\ GoodbyeSetResult(m.arg)
         /\ UNCHANGED sent_messages

\* Session.__handle_goodbye up to its first suspension
HandleGoodbye(m) ==
    IF goodbye_fut.st = "none"
    THEN /\ UNCHANGED goodbye_fut
         /\ IF m.arg = GOODBYE_AND_OUT
            THEN /\ receive_task' = [receive_task EXCEPT !.pc = "failed",
                                                         !.err = "RuntimeError"]
                 /\ UNCHANGED sent_messages
            ELSE /\ Send(Msg("GOODBYE", 0, GOODBYE_AND_OUT, 0))
                 /\ receive_task' = [receive_task EXCEPT !.pc = "goodbye_send",
                                                         !.goodbye = m.arg]
    ELSE /\ GoodbyeSetResult(m.arg)
         /\ UNCHANGED sent_messages

\* mutant of Emit: the task of the newest message runs first
EmitNewestFirst(tasks, m) == <<m>> \o tasks

\* message_handler.emit(msg): a task per listener, run in the order made
Emit(tasks, m) == Append(tasks, m)

\* Session.__receive_loop: one turn, from recv to the next suspension.  emit
\* makes a task of every listener; a GOODBYE goes to __handle_goodbye.
ReceiveLoop ==
    /\ receive_task.pc = "recv"
    /\ ~closed
    /\ receive_queue # <<>>
    /\ LET m == Head(receive_queue) IN
       /\ receive_queue' = Tail(receive_queue)
       /\ emitted' = IF attached THEN Emit(emitted, m) ELSE emitted
       /\ IF m.t # "GOODBYE"
          THEN UNCHANGED <<receive_task, goodbye_fut, sent_messages>>
          ELSE HandleGoodbye(m)
    /\ UNCHANGED <<clientVars, callVars, consVars, subVars, closed, router_count,
                   attached, dispatched, close_pc, join, regVars, invVars, libVars>>

\* `await self.send(Goodbye)` of __handle_goodbye returns
GoodbyeSendReturns ==
    /\ receive_task.pc = "goodbye_send"
    /\ GoodbyeSetResult(receive_task.goodbye)
    /\ UNCHANGED <<clientVars, callVars, consVars, subVars, transportVars,
                   attached, emitted, dispatched, close_pc, join, regVars, invVars, libVars>>

\* DummyTransport.close, called from outside the session: the connection is
\* lost
TransportLost ==
    /\ ~closed
    /\ closed' = TRUE
    /\ UNCHANGED <<clientVars, callVars, consVars, subVars, sent_messages, receive_queue,
                   router_count, sessionVars, join, regVars, invVars, libVars>>

\* DummyTransport.recv on a closed transport raises: the receive task ends
RecvFails ==
    /\ receive_task.pc = "recv"
    /\ closed
    /\ receive_task' = [receive_task EXCEPT !.pc = "failed", !.err = "Exception"]
    /\ UNCHANGED <<clientVars, callVars, consVars, subVars, transportVars,
                   goodbye_fut, attached, emitted, dispatched, close_pc, join, regVars, invVars,
                   libVars>>

\* Session.close after the GOODBYE was written: await goodbye_fut, then
\* transport.close
SessionCloseAwait ==
    IF goodbye_fut'.st = "done"
    THEN /\ closed' = TRUE
         /\ close_pc' = "closed"
    ELSE /\ close_pc' = "await_goodbye"
         /\ UNCHANGED closed

\* Session.close up to the suspension in send.  start() makes a new
\* Observable (without listeners) and a new receive task.
SessionClose ==
    /\ close_pc = "idle"
    /\ ~closed
    /\ IF receive_task.pc \in {"done", "failed"}
       THEN /\ receive_task' = [pc |-> "recv", gen |-> receive_task.gen + 1, goodbye |-> "",
                                 err |-> ""]
            /\ attached' = FALSE
       ELSE UNCHANGED <<receive_task, attached>>
    /\ goodbye_fut' = IF goodbye_fut.st = "none" THEN [st |-> "pending", val |-> ""]
                      ELSE goodbye_fut
    /\ Send(Msg("GOODBYE", 0, CLOSE_NORMAL, 0))
    /\ close_pc' = "send"
    /\ UNCHANGED <<clientVars, callVars, consVars, subVars, receive_queue, closed,
                   router_count, emitted, dispatched, join, regVars, invVars, libVars>>

\* `await self.send(Goodbye)` of Session.close returns
SessionCloseSendReturns ==
    /\ close_pc = "send"
    /\ UNCHANGED goodbye_fut
    /\ SessionCloseAwait
    /\ UNCHANGED <<clientVars, callVars, consVars, subVars, sent_messages, receive_queue,
                   router_count, receive_task, attached, emitted, dispatched, join, regVars, invVars,
                   libVars>>

\* the task awaiting goodbye_fut is woken
SessionCloseResume ==
    /\ close_pc = "await_goodbye"
    /\ goodbye_fut.st = "done"
    /\ UNCHANGED goodbye_fut
    /\ SessionCloseAwait
    /\ UNCHANGED <<clientVars, callVars, consVars, subVars, sent_messages, receive_queue,
                   router_count, receive_task, attached, emitted, dispatched, join, regVars, invVars,
                   libVars>>

\* ---------------------------------------------------------- client/conn.py
AuthMethods == {"ticket", "wampcra"}
NO_SUCH_REALM == "wamp.error.no_such_realm"
AUTHORIZATION_FAILED == "wamp.error.authorization_failed"
NOT_AUTHORIZED == "wamp.error.not_authorized"

\* what the router may answer to HELLO or AUTHENTICATE: WELCOME(session_id,
\* details), ABORT(reason), CHALLENGE(auth_method), or a message of another type
JoinReplies ==
    IF ~(\E i \in 1..Len(sent_messages) : sent_messages[i].t = "HELLO") THEN {}
    ELSE {Msg("WELCOME", sid, d, router_count + 1) : sid \in 1..MaxId, d \in {"d1", "d2"}}
         \cup {Msg("ABORT", 0, r, router_count + 1) : r \in {NO_SUCH_REALM, AUTHORIZATION_FAILED}}
         \cup {Msg("CHALLENGE", 0, a, router_count + 1) : a \in AuthMethods}
         \cup {Msg("GOODBYE", 0, SYSTEM_SHUTDOWN, router_count + 1)}

\* mutant of AssertWelcome: every message that is not an ABORT is a WELCOME
AssertWelcomeLax(j, m) ==
    IF m.t = "ABORT"
    THEN [j EXCEPT !.pc = "done", !.out = "AbortError", !.abort = m]
    ELSE [j EXCEPT !.pc = "welcome", !.welcome = m]

\* assert_welcome: the join record after the message was classified
AssertWelcome(j, m) ==
    IF m.t = "ABORT"
    THEN [j EXCEPT !.pc = "done", !.out = "AbortError", !.abort = m]
    ELSE IF m.t # "WELCOME"
    THEN [j EXCEPT !.pc = "done", !.out = "UnexpectedMessageError"]
    ELSE [j EXCEPT !.pc = "welcome", !.welcome = m]

\* return Session(transport, welcome.session_id, realm, welcome.details)
MakeSession(j) ==
    IF j.pc = "welcome"
    THEN [j EXCEPT !.pc = "done", !.out = "Session",
                   !.session_id = j.welcome.id, !.details = j.welcome.arg]
    ELSE j

\* join_realm up to the suspension in `await transport.send(Hello)`
JoinRealm(keyring) ==
    /\ join.pc = "start"
    /\ join' = [join EXCEPT !.pc = "hello_send", !.keyring = keyring]
    /\ Send(Msg("HELLO", 0, "realm", 0))
    /\ UNCHANGED <<clientVars, callVars, consVars, subVars, receive_queue, closed,
                   router_count, sessionVars,
                   regVars, invVars, libVars>>

\* the send returns; join_realm waits in transport.recv
JoinHelloSent ==
    /\ join.pc = "hello_send"
    /\ join' = [join EXCEPT !.pc = "recv"]
    /\ UNCHANGED <<clientVars, callVars, consVars, subVars, transportVars, sessionVars,
                   regVars, invVars, libVars>>

\* the first reply: a CHALLENGE goes to authentication (AuthError without a
\* keyring, _authenticate's AuthError without the method in the keyring),
\* everything else to assert_welcome
JoinFirstReply ==
    /\ join.pc = "recv"
    /\ receive_queue # <<>>
    /\ LET m == Head(receive_queue)
           j == [join EXCEPT !.first = m] IN
       /\ receive_queue' = Tail(receive_queue)
       /\ join' = IF m.t = "CHALLENGE"
                  THEN IF j.keyring = {} \/ m.arg \notin j.keyring
                       THEN [j EXCEPT !.pc = "done", !.out = "AuthError"]
                       ELSE [j EXCEPT !.pc = "authenticate", !.method = m.arg]
                  ELSE MakeSession(AssertWelcome(j, m))
    /\ UNCHANGED <<clientVars, callVars, consVars, subVars, sent_messages, closed,
                   router_count, sessionVars,
                   regVars, invVars, libVars>>

\* what method.authenticate does: it returns an AUTHENTICATE, returns an
\* ABORT of its own, or raises
AuthAnswers == {"AUTHENTICATE", "ABORT", "raise"}

\* mutant of JoinAuthSent: after an ABORT the transport stays open and the
\* next message is awaited
JoinAuthSentGoesOn ==
    /\ join.pc \in {"auth_send", "abort_send"}
    /\ join' = [join EXCEPT !.pc = "recv_welcome"]
    /\ UNCHANGED <<clientVars, callVars, consVars, subVars, transportVars, sessionVars,
                   regVars, invVars, libVars>>

\* _authenticate: `auth = await method.authenticate(challenge)` returns an
\* AUTHENTICATE or an ABORT, or raises, which makes an ABORT with
\* AUTHORIZATION_FAILED; the answer is written
JoinAuthenticate(answer) ==
    /\ join.pc = "authenticate"
    /\ IF answer = "AUTHENTICATE"
       THEN /\ Send(Msg("AUTHENTICATE", 0, join.method, 0))
            /\ join' = [join EXCEPT !.pc = "auth_send"]
       ELSE /\ Send(Msg("ABORT", 0, IF answer = "raise" THEN AUTHORIZATION_FAILED
                                                        ELSE NOT_AUTHORIZED, 0))
            /\ join' = [join EXCEPT !.pc = "abort_send"]
    /\ UNCHANGED <<clientVars, callVars, consVars, subVars, receive_queue, closed,
                   router_count, sessionVars,
                   regVars, invVars, libVars>>

\* _authenticate after `await transport.send(auth)`: an ABORT closes the
\* transport and raises AuthError, an AUTHENTICATE waits for the next message
JoinAuthSent ==
    /\ join.pc \in {"auth_send", "abort_send"}
    /\ IF join.pc = "abort_send"
       THEN /\ closed' = TRUE
            /\ join' = [join EXCEPT !.pc = "done", !.out = "AuthError"]
       ELSE /\ join' = [join EXCEPT !.pc = "recv_welcome"]
            /\ UNCHANGED closed
    /\ UNCHANGED <<clientVars, callVars, consVars, subVars, sent_messages, receive_queue,
                   router_count, sessionVars,
                   regVars, invVars, libVars>>

\* _authenticate: welcome = assert_welcome(await transport.recv())
JoinSecondReply ==
    /\ join.pc = "recv_welcome"
    /\ receive_queue # <<>>
    /\ receive_queue' = Tail(receive_queue)
    /\ join' = LET j == AssertWelcome(join, Head(receive_queue)) IN
               IF j.pc = "welcome" THEN [j EXCEPT !.pc = "check_welcome"] ELSE j
    /\ UNCHANGED <<clientVars, callVars, consVars, subVars, sent_messages, closed,
                   router_count, sessionVars,
                   regVars, invVars, libVars>>

\* _authenticate: `await method.check_welcome(welcome)` returns or raises
JoinCheckWelcome(ok) ==
    /\ join.pc = "check_welcome"
    /\ join' = IF ok THEN MakeSession([join EXCEPT !.pc = "welcome"])
               ELSE [join EXCEPT !.pc = "done", !.out = "AuthError"]
    /\ UNCHANGED <<clientVars, callVars, consVars, subVars, transportVars, sessionVars,
                   regVars, invVars, libVars>>

\* -------------------------------------------------------- specifications
CallReplies == {m \in RouterMsgs : m.t \in {"RESULT", "ERROR"}}
SubscribeReplies == {m \in RouterMsgs : m.t \in {"SUBSCRIBED", "ERROR"}}
Goodbyes == {m \in RouterMsgs : m.t = "GOODBYE"}

\* the life of a Call: its consumer, the router's replies, the receive loop
\* and the dispatcher, and Client.close
CallNext ==
    \/ \E rp \in {"unset", "true", "false"}, cm \in {"", CANCEL_KILL} : ClientCall(rp, cm)
    \/ \E rid \in Ids : OnProgress(rid)
    \/ \E rid \in Ids : AwaitResult(rid)
    \/ \E rid \in Ids : NextProgress(rid)
    \/ \E rid \in Ids : SendCallReturns(rid)
    \/ \E rid \in Ids : ResultResume(rid)
    \/ \E rid \in Ids : ProgressResume(rid)
    \/ \E rid \in Ids : TaskCancel(rid)
    \/ \E rid \in Ids : CancelSendReturns(rid)
    \/ \E rid \in Ids : UserCancel(rid)
    \/ \E m \in CallReplies : RouterSend(m)
    \/ ReceiveLoop
    \/ HandleMessage
    \/ ClientClose

Spec == Init /\ [][CallNext]_vars

\* two tasks await the result and the progress of the same Call, which the
\* router answers and Client.close may kill
TwoNext ==
    \/ \E rp \in {"unset", "true"} : ClientCall(rp, "")
    \/ \E rid \in Ids : AwaitResult(rid)
    \/ \E rid \in Ids : NextProgress(rid)
    \/ \E rid \in Ids : SendCallReturns(rid)
    \/ \E rid \in Ids : ResultResume(rid)
    \/ \E rid \in Ids : FirstGetterAhead(rid) /\ ProgressResume(rid)
    \/ \E rid \in Ids : OtherAwaitResult(rid)
    \/ \E rid \in Ids : OtherNextProgress(rid)
    \/ \E rid \in Ids : OtherSendReturns(rid)
    \/ \E rid \in Ids : OtherResultResume(rid)
    \/ \E rid \in Ids : OtherProgressResume(rid)
    \/ \E m \in CallReplies \cup {r \in RouterMsgs : r.arg = "progress"} : RouterSend(m)
    \/ ReceiveLoop
    \/ HandleMessage
    \/ ClientClose

\* every task of the event loop that can run does run
TwoSteps ==
    \/ \E rid \in Ids : SendCallReturns(rid)
    \/ \E rid \in Ids : ResultResume(rid)
    \/ \E rid \in Ids : FirstGetterAhead(rid) /\ ProgressResume(rid)
    \/ \E rid \in Ids : OtherSendReturns(rid)
    \/ \E rid \in Ids : OtherResultResume(rid)
    \/ \E rid \in Ids : OtherProgressResume(rid)
    \/ ReceiveLoop
    \/ HandleMessage

TwoSpec == Init /\ [][TwoNext]_vars /\ WF_vars(TwoSteps)

\* pending calls and single-shot requests, and Client.close
CloseNext ==
    \/ \E rp \in {"unset"}, cm \in {""} : ClientCall(rp, cm)
    \/ \E rid \in Ids : AwaitResult(rid)
    \/ \E rid \in Ids : SendCallReturns(rid)
    \/ \E rid \in Ids : ResultResume(rid)
    \/ \E topic \in {"u1"} : Subscribe(topic)
    \/ \E rid \in Ids : SubscribeSendReturns(rid)
    \/ \E rid \in Ids : SubscribeResume(rid)
    \/ \E m \in CallReplies \cup SubscribeReplies : RouterSend(m)
    \/ ReceiveLoop
    \/ HandleMessage
    \/ ClientClose

CloseSpec == Init /\ [][CloseNext]_vars

\* the session: the receive loop, GOODBYE in both directions, Session.close
SessionNext ==
    \/ \E rp \in {"unset"}, cm \in {""} : ClientCall(rp, cm)
    \/ \E rid \in Ids : AwaitResult(rid)
    \/ \E rid \in Ids : SendCallReturns(rid)
    \/ \E rid \in Ids : ResultResume(rid)
    \/ \E m \in Goodbyes \cup CallReplies : RouterSend(m)
    \/ ReceiveLoop
    \/ HandleMessage
    \/ GoodbyeSendReturns
    \/ RecvFails
    \/ SessionClose
    \/ SessionCloseSendReturns
    \/ SessionCloseResume

SessionSpec == Init /\ [][SessionNext]_vars

\* joining a realm: HELLO, the router's replies, the optional challenge
JoinNext ==
    \/ \E keyring \in SUBSET AuthMethods : JoinRealm(keyring)
    \/ JoinHelloSent
    \/ JoinFirstReply
    \/ \E answer \in AuthAnswers : JoinAuthenticate(answer)
    \/ JoinAuthSent
    \/ JoinSecondReply
    \/ \E ok \in BOOLEAN : JoinCheckWelcome(ok)
    \/ \E m \in JoinReplies : RouterSend(m)

JoinSpec == JoinInit /\ [][JoinNext]_vars


\* the multiplexer: a registration with its invocations, a call, and
\* Client.close
MuxNext ==
    \/ \E uri \in {"u1"} : id_gen < MaxId /\ Register(uri)
    \/ \E rid \in Ids : RequestSendReturns(rid)
    \/ \E rid \in Ids : RequestResume(rid)
    \/ \E rp \in {"unset"}, cm \in {""} : ClientCall(rp, cm)
    \/ \E rid \in Ids : AwaitResult(rid)
    \/ \E rid \in Ids : SendCallReturns(rid)
    \/ \E rid \in Ids : ResultResume(rid)
    \/ \E m \in CallReplies \cup RequestReplies("REGISTER", "REGISTERED")
                \cup Invocations : RouterSend(m)
    \/ ReceiveLoop
    \/ HandleMessage
    \/ \E rid \in Ids : InvSendResult(rid)
    \/ \E rid \in Ids : InvocationDone(rid)
    \/ ClientClose

MuxSpec == Init /\ [][MuxNext]_vars

\* publish with and without acknowledge and the router's replies
PublishNext ==
    \/ \E acknowledge \in {"unset", "false", "true"} :
           id_gen < MaxPublishes /\ Publish(acknowledge)
    \/ \E rid \in Ids : PublishSendReturns(rid)
    \/ \E rid \in Ids : RequestSendReturns(rid)
    \/ \E rid \in Ids : RequestResume(rid)
    \/ \E m \in RequestReplies("PUBLISH", "PUBLISHED") : RouterSend(m)
    \/ ReceiveLoop
    \/ HandleMessage

PublishSpec == Init /\ [][PublishNext]_vars

\* registrations: register, unregister by URI and by id, the router's replies
RegNext ==
    \/ \E uri \in URIs : id_gen < MaxId /\ Register(uri)
    \/ \E rid \in Ids : RequestSendReturns(rid)
    \/ \E rid \in Ids : RequestResume(rid)
    \/ \E uri \in URIs : UnregisterAll(uri)
    \/ \E uri \in URIs, id \in Serials : UnregisterId(uri, id)
    \/ GatherTaskStart
    \/ \E m \in RequestReplies("REGISTER", "REGISTERED")
                \cup RequestReplies("UNREGISTER", "UNREGISTERED") : RouterSend(m)
    \/ ReceiveLoop
    \/ HandleMessage

RegSpec == Init /\ [][RegNext]_vars

\* subscriptions next to registrations: subscribe, unsubscribe by topic and
\* by id, the router's replies
SubNext ==
    \/ \E topic \in {"u1"} : Subscribe(topic)
    \/ \E rid \in Ids : SubscribeSendReturns(rid)
    \/ \E rid \in Ids : SubscribeResume(rid)
    \/ \E uri \in {"u1"} : id_gen < MaxId /\ Register(uri)
    \/ \E rid \in Ids : RequestSendReturns(rid)
    \/ \E rid \in Ids : RequestResume(rid)
    \/ \E topic \in URIs : UnsubscribeAll(topic)
    \/ \E topic \in URIs, id \in Serials : UnsubscribeId(topic, id)
    \/ GatherTaskStart
    \/ \E m \in SubscribeReplies \cup RequestReplies("REGISTER", "REGISTERED")
                \cup RequestReplies("UNSUBSCRIBE", "UNSUBSCRIBED") : RouterSend(m)
    \/ ReceiveLoop
    \/ HandleMessage

SubSpec == Init /\ [][SubNext]_vars

\* subscriptions and their events
EventNext ==
    \/ \E topic \in {"u1"} : Subscribe(topic)
    \/ \E rid \in Ids : SubscribeSendReturns(rid)
    \/ \E rid \in Ids : SubscribeResume(rid)
    \/ \E m \in SubscribeReplies \cup Events : RouterSend(m)
    \/ ReceiveLoop
    \/ HandleMessage

EventSpec == Init /\ [][EventNext]_vars

\* Invocations and the calls of their send methods, in any order
InvNext ==
    \/ \E rid \in 1..MaxId, progress \in {"", "progress"} : MakeInvocation(rid, progress)
    \/ \E rid \in Ids : InvSendProgress(rid)
    \/ \E rid \in Ids : InvSendResult(rid)
    \/ \E rid \in Ids : InvSendError(rid)

InvSpec == Init /\ [][InvNext]_vars

\* async-generator handlers run for invocations whose caller takes progress
RunnerSpecNext ==
    \/ \E rid \in 1..MaxId : MakeInvocation(rid, "progress")
    \/ \E rid \in Ids, gen \in GenScripts : RunnerStart(rid, gen)
    \/ \E rid \in Ids : RunnerNext(rid)
    \/ \E rid \in Ids : RunnerInstant(rid)

RunnerSpec == Init /\ [][RunnerSpecNext]_vars

\* invocations of registrations the client holds, has given up or never had
UnknownRegNext ==
    \/ id_gen < MaxId /\ Register("u1")
    \/ \E rid \in Ids : RequestSendReturns(rid)
    \/ \E rid \in Ids : RequestResume(rid)
    \/ UnregisterAll("u1")
    \/ GatherTaskStart
    \/ \E m \in RequestReplies("REGISTER", "REGISTERED")
                \cup RequestReplies("UNREGISTER", "UNREGISTERED")
                \cup InvocationsAnyReg : RouterSend(m)
    \/ ReceiveLoop
    \/ HandleMessage
    \/ \E rid \in Ids : InvocationDone(rid)

UnknownRegSpec == Init /\ [][UnknownRegNext]_vars

\* the handlers a procedure may be registered with
Handlers ==
    {[kind |-> "gen", gen |-> g, catches |-> c] :
         g \in {g \in GenScripts : Len(g) <= MaxHandlerYields}, c \in BOOLEAN}
    \cup {[kind |-> k, gen |-> <<FALSE>>, catches |-> c] :
             k \in {"coro", "awaitable"}, c \in BOOLEAN}

\* a registered procedure is invoked and interrupted
InterruptNext ==
    \/ id_gen < MaxId /\ Register("u1")
    \/ \E rid \in Ids : RequestSendReturns(rid)
    \/ \E rid \in Ids : RequestResume(rid)
    \/ \E m \in RequestReplies("REGISTER", "REGISTERED") \cup Invocations \cup Interrupts :
           RouterSend(m)
    \/ ReceiveLoop
    \/ HandleMessage
    \/ \E rid \in Ids, h \in Handlers : HandlerStart(rid, h.kind, h.gen, h.catches)
    \/ \E rid \in Ids : RunnerNext(rid)
    \/ \E rid \in Ids : RunnerInstant(rid)
    \/ \E rid \in Ids : RunnerInterrupt(rid)
    \/ \E rid \in Ids : inv[rid].runner.pc \in {"done", "failed"} /\ InvocationDone(rid)

InterruptSpec == Init /\ [][InterruptNext]_vars

\* a Client on a started Session, of which no use is made
ClientInit ==
    /\ InitBase
    /\ procedure_ids = [u \in URIs |-> NoArray]
    /\ procedures = {}
    /\ sub_ids = [u \in URIs |-> NoArray]
    /\ receive_task = [pc |-> "recv", gen |-> 1, goodbye |-> "", err |-> ""]
    /\ join = NoJoin

\* an IDGenerator that has counted up to some value
GenInit ==
    /\ ClientInit
    /\ gen_id \in GenStarts
    /\ gen_from = gen_id
    /\ gen_out = <<>>
    /\ MatchNone
    /\ BwNew
    /\ RawNone

GenSpec == GenInit /\ [][GenNext]_vars

\* URI.policy_match is called with some policy, uri and pattern
MatchInit ==
    /\ ClientInit
    /\ GenNew
    /\ BwNew
    /\ RawNone
    /\ match_args \in [policy : {"", MATCH_PREFIX, MATCH_WILDCARD, "exact"},
                       uri : UriStrings, other : UriStrings]
    /\ match_out = ""

MatchSpec == MatchInit /\ [][CallPolicyMatch]_vars

\* a BlackWhiteList is built from some lists of session ids
BwInit ==
    /\ ClientInit
    /\ GenNew
    /\ MatchNone
    /\ RawNone
    /\ bw_args \in [excluded_ids : IdLists, eligible_ids : IdLists]
    /\ bwlist \in [excluded_ids : UniqueListOrNone(bw_args.excluded_ids),
                    eligible_ids : UniqueListOrNone(bw_args.eligible_ids)]
    /\ bw_out = <<>>

BwNext == \E receiver \in 1..MaxSessionId : BwCheck(receiver)

BwSpec == BwInit /\ [][BwNext]_vars

\* session ids are added to the lists of a BlackWhiteList
BwAddNext ==
    \/ \E session_id \in 1..MaxSessionId : exclude_session_id(session_id)
    \/ \E session_id \in 1..MaxSessionId : allow_session_id(session_id)

BwAddSpec == BwInit /\ [][BwAddNext]_vars

\* ------------------------------------------------ transports/raw_socket.py
\* the values of a byte of the stream, the receive limit of the transport,
\* the bytes the peer writes and the calls of recv
MaxByte == 2
RecvLimit == 1
MaxStreamLen == 8
MaxRecvs == 2

Bytes == 0..MaxByte

\* bytes_to_int: three bytes, big endian
bytes_to_int(d) == d[1] * 65536 + d[2] * 256 + d[3]

Take(s, n) == SubSeq(s, 1, n)
Drop(s, n) == SubSeq(s, n + 1, Len(s))
Less(a, b) == IF a > b THEN a - b ELSE 0

\* `while not (self.reader.at_eof() or self.reader.exception())`: at_eof is
\* true when eof was fed and the buffer is empty
LoopAgain(eof, buffer) == IF eof /\ buffer = <<>> THEN "ended" ELSE "header"

RawStep(r) ==
    /\ raw' = r
    /\ UNCHANGED <<clientVars, callVars, consVars, subVars, transportVars, sessionVars, join,
                   regVars, invVars, genVars, matchVars, bwVars>>

\* the peer writes a byte and the event loop feeds it to the StreamReader;
\* a transport that was closed reads no more
PeerWrites(b) ==
    /\ raw.pc # "none" /\ ~raw.closed
    /\ raw.fed < MaxStreamLen
    /\ RawStep([raw EXCEPT !.buffer = Append(@, b), !.fed = @ + 1])

\* __read_once up to the type switch: readexactly(4) returns the header; a
\* length over the limit closes the writer (which feeds eof to the reader) and
\* raises Exception, which __read_loop logs before it tests its condition again
ReadHeader ==
    /\ raw.pc = "header"
    /\ Len(raw.buffer) >= 4
    /\ LET header == Take(raw.buffer, 4)
           rest == Drop(raw.buffer, 4)
           length == bytes_to_int(Drop(header, 1)) IN
       IF length > RecvLimit
       THEN RawStep([raw EXCEPT !.buffer = rest, !.closed = TRUE, !.eof = TRUE,
                                !.pc = LoopAgain(TRUE, rest),
                                !.over = IF raw.seen THEN Less(raw.over, 4)
                                         ELSE IF length < Len(rest) THEN length ELSE Len(rest),
                                !.seen = TRUE])
       ELSE RawStep([raw EXCEPT !.buffer = rest, !.header = header, !.pc = "body",
                                !.in_body = raw.over > 0,
                                !.over = Less(raw.over, 4)])

\* __read_once after the header: readexactly(length) returns the body; a
\* message is deserialized and put on the queue, a PING is answered with a
\* PONG (a closed writer drops it), anything else is discarded
ReadBody ==
    /\ raw.pc = "body"
    /\ LET length == bytes_to_int(Drop(raw.header, 1))
           t_type == raw.header[1] IN
       /\ Len(raw.buffer) >= length
       /\ LET data == Take(raw.buffer, length)
              rest == Drop(raw.buffer, length) IN
          RawStep([raw EXCEPT
              !.buffer = rest, !.header = <<>>, !.pc = LoopAgain(raw.eof, rest),
              !.over = Less(raw.over, length),
              !.queue = IF t_type = 0
                        THEN Append(@, [data |-> data, in_body |-> raw.in_body, error |-> ""])
                        ELSE @,
              !.pongs = IF t_type = 1 /\ ~raw.closed THEN @ + 1 ELSE @])

\* readexactly at eof with too few bytes left: IncompleteReadError, which
\* empties the buffer; __read_loop logs it and ends
ReadIncomplete ==
    /\ raw.eof
    /\ \/ raw.pc = "header" /\ Len(raw.buffer) < 4
       \/ raw.pc = "body" /\ Len(raw.buffer) < bytes_to_int(Drop(raw.header, 1))
    /\ RawStep([raw EXCEPT !.buffer = <<>>, !.header = <<>>, !.pc = "ended", !.over = 0])

\* recv: `await self._msg_queue.get()` returns at once or waits
RawRecv ==
    /\ raw.pc # "none"
    /\ raw.recv_pc = "idle"
    /\ Len(raw.recv_out) < MaxRecvs
    /\ IF raw.queue # <<>>
       THEN RawStep([raw EXCEPT !.queue = Tail(@), !.recv_out = Append(@, Head(raw.queue))])
       ELSE RawStep([raw EXCEPT !.recv_pc = "waiting"])

\* the task waiting in recv is woken by a put
RawRecvResume ==
    /\ raw.recv_pc = "waiting"
    /\ raw.queue # <<>>
    /\ RawStep([raw EXCEPT !.queue = Tail(@), !.recv_out = Append(@, Head(raw.queue)),
                           !.recv_pc = "idle"])

\* a started RawSocketTransport after the handshake
RawInit ==
    /\ ClientInit
    /\ GenNew
    /\ MatchNone
    /\ BwNew
    /\ raw = [NoRaw EXCEPT !.pc = "header"]

RawNext ==
    \/ \E b \in Bytes : PeerWrites(b)
    \/ ReadHeader
    \/ ReadBody
    \/ ReadIncomplete
    \/ RawRecv
    \/ RawRecvResume

\* the read loop and the task in recv run when they can
RawSteps == ReadHeader \/ ReadBody \/ ReadIncomplete \/ RawRecvResume

RawSpec == RawInit /\ [][RawNext]_vars /\ WF_vars(RawSteps)

\* a call and a subscribe are pending when the connection is lost
FailNext ==
    \/ \E rp \in {"unset"}, cm \in {""} : ~closed /\ ClientCall(rp, cm)
    \/ \E rid \in Ids : ~closed /\ AwaitResult(rid)
    \/ \E rid \in Ids : SendCallReturns(rid)
    \/ \E rid \in Ids : ResultResume(rid)
    \/ \E topic \in {"u1"} : ~closed /\ Subscribe(topic)
    \/ \E rid \in Ids : SubscribeSendReturns(rid)
    \/ \E rid \in Ids : SubscribeResume(rid)
    \/ \E m \in CallReplies \cup SubscribeReplies : RouterSend(m)
    \/ ReceiveLoop
    \/ HandleMessage
    \/ TransportLost
    \/ RecvFails
    \/ ClientClose

\* the steps the event loop takes by itself: tasks that can run do run
FailSteps ==
    \/ \E rid \in Ids : SendCallReturns(rid)
    \/ \E rid \in Ids : ResultResume(rid)
    \/ \E rid \in Ids : SubscribeSendReturns(rid)
    \/ \E rid \in Ids : SubscribeResume(rid)
    \/ ReceiveLoop
    \/ HandleMessage
    \/ RecvFails

FailSpec == Init /\ [][FailNext]_vars /\ WF_vars(FailSteps)

\* subscriptions whose handlers may raise
EventErrNext ==
    \/ \E topic \in {"u1"} : Subscribe(topic)
    \/ \E rid \in Ids : SubscribeSendReturns(rid)
    \/ \E rid \in Ids : SubscribeResume(rid)
    \/ \E m \in SubscribeReplies \cup EventsOfBothKinds : RouterSend(m)
    \/ ReceiveLoop
    \/ HandleMessage

EventErrSpec == Init /\ [][EventErrNext]_vars


\* ================================================================= claims
\* a non-progress RESULT or an ERROR with this request id was dispatched
FinalDispatched(rid) ==
    \E i \in 1..Len(dispatched) :
        /\ dispatched[i].id = rid
        /\ dispatched[i].t \in {"RESULT", "ERROR"}
        /\ dispatched[i].arg # "progress"

\* the serial numbers of the progress RESULTs dispatched for rid before the
\* first final message for rid, in the order of dispatch
ProgressBeforeFinal(rid) ==
    LET finals == {i \in 1..Len(dispatched) :
                      dispatched[i].id = rid /\ dispatched[i].arg # "progress"}
        k == IF finals = {} THEN Len(dispatched) + 1
             ELSE CHOOSE i \in finals : \A j \in finals : i <= j
        mine == SelectSeq(SubSeq(dispatched, 1, k - 1), LAMBDA m : m.id = rid)
    IN [i \in 1..Len(mine) |-> mine[i].n]

\* C1: a CALL is on the wire only if the consumer has awaited the Call's
\* result or its next progress; making the Call or attaching a progress
\* handler writes nothing.
C1_CallLazySend ==
    \A rid \in Ids : Written("CALL", rid) => awaited[rid] # ""

\* C1 witness: a Call with a progress handler attached, then awaited, whose
\* CALL is written
C1_Witness ==
    \E rid \in Ids : progress_handler[rid] /\ awaited[rid] # "" /\ Written("CALL", rid)

\* C2: once a final RESULT or an ERROR for a sent CALL was dispatched, the
\* Call is not in ongoing_calls and its future is done; the same holds when
\* the task awaiting the Call has resumed with the reply.
C2_FinalRemovesCall ==
    \A rid \in Ids :
        /\ call_sent[rid] /\ FinalDispatched(rid)
              => rid \notin ongoing_calls /\ Done(result_fut[rid])
        /\ cons_pc[rid] = "done" /\ cons_out[rid] \in {"InvocationResult", "ErrorResponse"}
              => rid \notin ongoing_calls /\ Done(result_fut[rid])

\* C2 witness: the consumer has resumed with an ERROR reply
C2_Witness ==
    \E rid \in Ids : FinalDispatched(rid) /\ cons_pc[rid] = "done"
                     /\ cons_out[rid] = "ErrorResponse"

\* C3 (as claimed): a progress iteration begun before the CALL was sent
\* yields exactly the progress RESULTs received before the final message,
\* in order, and then ends.
C3_ProgressIterationExact ==
    \A rid \in Ids :
        (/\ awaited[rid] = "progress"
         /\ Ended(rid)
         /\ result_fut[rid].st = "result"
         /\ client_close = "")
        => yielded[rid] = Append(ProgressBeforeFinal(rid), 0)

\* C4: the terminal outcome of a Call, once set, is never replaced by a
\* later response, kill or cancel.
C4_TerminalOutcomeStable ==
    [][\A rid \in Ids : Done(result_fut[rid]) => result_fut'[rid] = result_fut[rid]]_vars

\* C4 witness: a cancelled Call that a final reply and Client.close have
\* reached afterwards
C4_Witness ==
    \E rid \in Ids : result_fut[rid].st = "cancelled" /\ FinalDispatched(rid)
                     /\ client_close # ""

\* C5 (as claimed): the task awaiting the result is cancelled after the CALL
\* was sent and before a final reply: a CANCEL with the configured mode is
\* written and the awaiter observes cancellation.
C5_CancelWritesCancel ==
    \A rid \in Ids :
        task_cancel[rid] = "awaiting" /\ cons_pc[rid] = "done"
        => /\ cons_out[rid] = "CancelledError"
           /\ \E i \in 1..Len(sent_messages) :
                 sent_messages[i] = Msg("CANCEL", rid, cancel_mode[rid], 0)

\* C6 (as claimed): after Client.close with a CALL and a SUBSCRIBE pending,
\* every pending call and waiter has ClientClosed, transport.close was
\* called, and awaiting_reply, ongoing_calls and the subscription table are
\* empty.
C6_CloseReleasesAll ==
    (/\ client_close # ""
     /\ \E rid \in Ids : call_sent[rid]
     /\ \E rid \in Ids : Written("SUBSCRIBE", rid)) =>
        /\ closed
        /\ awaiting_reply = {} /\ ongoing_calls = {} /\ sub_handlers = {}
        /\ \A rid \in Ids : result_fut[rid].st # "pending" /\ reply_fut[rid].st # "pending"

\* C7 (as claimed): Session.close calls transport.close only after a GOODBYE
\* with reason goodbye_and_out was received from the peer.
C7_CloseNeedsGoodbyeAndOut ==
    (closed /\ close_pc = "closed" /\ receive_task.gen = 1)
        => goodbye_fut.val = GOODBYE_AND_OUT

\* the messages the first receive loop has taken from the transport
Received == dispatched \o emitted

\* the number of GOODBYEs with reason goodbye_and_out written
GoodbyeReplies ==
    Cardinality({i \in 1..Len(sent_messages) :
                    sent_messages[i] = Msg("GOODBYE", 0, GOODBYE_AND_OUT, 0)})

\* C8: a GOODBYE with a reason other than goodbye_and_out received while no
\* local close was begun is answered by exactly one GOODBYE with reason
\* goodbye_and_out, the receive loop stops, and no message received after a
\* GOODBYE is dispatched.
C8_RemoteGoodbye ==
    /\ GoodbyeReplies <= 1
    /\ (close_pc = "idle" /\ \E i \in 1..Len(Received) :
            Received[i].t = "GOODBYE" /\ Received[i].arg # GOODBYE_AND_OUT)
         => /\ GoodbyeReplies = 1
            /\ receive_task.pc \in {"goodbye_send", "done"}
    /\ GoodbyeReplies = 1 => receive_task.gen > 1 \/ receive_task.pc # "recv"
    /\ \A i \in 1..Len(Received) : Received[i].t = "GOODBYE" => i = Len(Received)

\* C8 witness: a remote goodbye was answered while a reply to a CALL is left
\* behind it in the receive queue
C8_Witness ==
    /\ close_pc = "idle"
    /\ receive_task.pc = "done"
    /\ GoodbyeReplies = 1
    /\ \E i \in 1..Len(dispatched) : dispatched[i].t = "GOODBYE"
    /\ receive_queue # <<>>

\* C9: when the receive loop takes a GOODBYE with reason goodbye_and_out and
\* no close was begun (no goodbye future), the loop fails with RuntimeError,
\* nothing is written and the goodbye future is left as it was.
C9_GoodbyeAndOutWhileIdle ==
    [][(/\ receive_task.pc = "recv"
        /\ receive_queue # <<>>
        /\ Head(receive_queue).t = "GOODBYE"
        /\ Head(receive_queue).arg = GOODBYE_AND_OUT
        /\ goodbye_fut.st = "none"
        /\ receive_queue' = Tail(receive_queue))
       => (/\ receive_task'.pc = "failed"
           /\ receive_task'.err = "RuntimeError"
           /\ sent_messages' = sent_messages
           /\ goodbye_fut' = goodbye_fut)]_vars

\* C9 witness: the loop has failed on a goodbye_and_out with no close begun
C9_Witness ==
    /\ receive_task.err = "RuntimeError"
    /\ goodbye_fut.st = "none"
    /\ \E i \in 1..Len(Received) : Received[i] .arg = GOODBYE_AND_OUT

\* C10: join_realm writes exactly one HELLO and settles on the first reply:
\* WELCOME gives a Session with its session_id and details, ABORT gives
\* AbortError with the ABORT, CHALLENGE goes to authentication (the plug-in
\* for the method, AuthError when there is none), and any other message gives
\* UnexpectedMessageError; a Session is made only from a WELCOME.
C10_JoinClassifiesFirstReply ==
    /\ CountSent("HELLO", 0) = IF join.pc = "start" THEN 0 ELSE 1
    /\ join.first.t = "WELCOME" =>
          /\ join.pc = "done" /\ join.out = "Session"
          /\ join.session_id = join.first.id /\ join.details = join.first.arg
    /\ join.first.t = "ABORT" =>
          join.pc = "done" /\ join.out = "AbortError" /\ join.abort = join.first
    /\ join.first.t = "CHALLENGE" =>
          \/ join.first.arg \in join.keyring /\ join.method = join.first.arg
          \/ join.first.arg \notin join.keyring /\ join.pc = "done" /\ join.out = "AuthError"
    /\ join.first.t \notin {"", "WELCOME", "ABORT", "CHALLENGE"} =>
          join.pc = "done" /\ join.out = "UnexpectedMessageError"
    /\ join.out = "Session" =>
          join.welcome.t = "WELCOME" /\ join.session_id = join.welcome.id
    /\ join.out # "Session" => join.session_id = 0

\* C10 witness: a message that is none of WELCOME, ABORT, CHALLENGE came first
C10_Witness ==
    join.first.t = "GOODBYE" /\ join.out = "UnexpectedMessageError"

\* C11 (as claimed): a CHALLENGE whose auth_method is not in the keyring
\* makes join_realm fail with AuthError and the transport is closed.
C11_UnknownMethodClosesTransport ==
    (/\ join.pc = "done"
     /\ join.first.t = "CHALLENGE"
     /\ join.keyring # {}
     /\ join.first.arg \notin join.keyring)
    => join.out = "AuthError" /\ closed

\* a single-shot request whose waiter has no outcome yet
PendingWaiter(rid) == reply_fut[rid].st = "pending"

\* a Call whose result future has no outcome yet
PendingCall(rid) == result_fut[rid].st = "pending"

\* an invocation whose runner is being awaited by __handle_invocation
RunningInvocation(rid) == inv[rid].pc = "running"

\* the maps of the client that have this number as a key
MapsWith(rid) ==
    {k \in {"awaiting_reply", "ongoing_calls", "running_invocations"} :
        \/ k = "awaiting_reply" /\ rid \in awaiting_reply
        \/ k = "ongoing_calls" /\ rid \in ongoing_calls
        \/ k = "running_invocations" /\ rid \in running_procedures}

\* C12 (as claimed): every pending request id is a key of exactly one of
\* awaiting_reply, ongoing_calls and running_invocations.
C12_ExactlyOneMap ==
    \A rid \in Ids :
        (PendingWaiter(rid) \/ PendingCall(rid) \/ RunningInvocation(rid))
            => Cardinality(MapsWith(rid)) = 1

\* C12 (amended): the ids of the client's own requests and the request ids of
\* invocations, which the router chooses, are separate: a pending waiter's id
\* is a key of awaiting_reply and not of ongoing_calls, a pending Call's id is
\* a key of ongoing_calls and not of awaiting_reply, and a running
\* invocation's request id is a key of running_invocations.
C12_OneMapPerIdSpace ==
    \A rid \in Ids :
        /\ PendingWaiter(rid) => rid \in awaiting_reply /\ rid \notin ongoing_calls
        /\ PendingCall(rid) => rid \in ongoing_calls /\ rid \notin awaiting_reply
        /\ RunningInvocation(rid) => rid \in running_procedures

\* a pending Call and a running invocation have the same request id
C12_Witness ==
    \E rid \in Ids : PendingCall(rid) /\ RunningInvocation(rid)
                     /\ rid \in ongoing_calls /\ rid \in running_procedures

\* C13 (as claimed): a Call that was cancelled before its CALL was sent has
\* no entry in ongoing_calls once cancel has returned.
C13_CancelledUnsentCallRemoved ==
    \A rid \in Ids :
        (result_fut[rid].st = "cancelled" /\ ~call_sent[rid] /\ client_close = "")
            => rid \notin ongoing_calls

\* C14: messages are dispatched in the order the receive loop read them: the
\* serial numbers of the messages whose dispatch has started, followed by
\* those still waiting for it, are strictly increasing.
C14_DispatchInReceiveOrder ==
    \A i, j \in 1..Len(Received) : i < j => Received[i].n < Received[j].n

\* a waiter was completed, an invocation started and a Call fed, one after
\* the other
C14_Witness ==
    \E i, j, k \in 1..Len(dispatched) :
        /\ i < j /\ j < k
        /\ dispatched[i].t = "REGISTERED"
        /\ dispatched[j].t = "INVOCATION" /\ dispatched[j].id \in running_procedures
        /\ dispatched[k].t = "RESULT"

\* the PUBLISH with this request id asked for an acknowledgement
Acknowledged(rid) == \E i \in 1..Len(sent_messages) :
                         sent_messages[i] = Msg("PUBLISH", rid, "true", 0)

\* a message of this type with this request id was dispatched
Dispatched(t, rid) == \E i \in 1..Len(dispatched) :
                          dispatched[i].t = t /\ dispatched[i].id = rid

\* C15: publish without acknowledge writes one PUBLISH, records no waiter and
\* returns; publish with acknowledge writes one PUBLISH with its waiter in
\* awaiting_reply, returns normally only after a PUBLISHED with its request id
\* was dispatched, and fails with ErrorResponse when the reply was an ERROR.
C15_Publish ==
    \A rid \in Ids :
        req_kind[rid] = "publish" =>
            /\ CountSent("PUBLISH", rid) = 1
            /\ IF Acknowledged(rid)
               THEN /\ (req_pc[rid] # "done" /\ client_close = "") => rid \in awaiting_reply
                    /\ req_out[rid] = "ok" => Dispatched("PUBLISHED", rid)
                    /\ (req_pc[rid] = "done" /\ reply_fut[rid].val = "ERROR")
                           => req_out[rid] = "ErrorResponse"
               ELSE /\ rid \notin awaiting_reply
                    /\ reply_fut[rid] = NoReply
                    /\ req_pc[rid] = "done" => req_out[rid] = "ok"

\* three publishes have ended: one without acknowledge, one acknowledged by
\* PUBLISHED, one answered with ERROR
C15_Witness ==
    \E a, b, c \in Ids :
        /\ req_kind[a] = "publish" /\ ~Acknowledged(a) /\ req_pc[a] = "done"
        /\ req_kind[b] = "publish" /\ Acknowledged(b) /\ req_out[b] = "ok"
        /\ req_kind[c] = "publish" /\ Acknowledged(c) /\ req_out[c] = "ErrorResponse"

\* the ids held by an array
Elems(a) == {a[i] : i \in 1..Len(a)}

\* the requests written by call number `call` of unregister or unsubscribe for this id
RequestsOf(call, id) == {rid \in Ids : req_arg[rid].call = call /\ req_arg[rid].id = id}

\* the tasks of that call for this id that have not started
WaitingTasks(call, id) ==
    {i \in 1..Len(gather_queue) : gather_queue[i].call = call /\ gather_queue[i].id = id}

\* how often request rid wrote a message of type t naming this id
CountSentFor(t, rid, id) ==
    Cardinality({i \in 1..Len(sent_messages) :
        sent_messages[i].t = t /\ sent_messages[i].id = rid /\ sent_messages[i].reg = id})

\* C16: unregister(procedure) makes one __unregister per id of the URI's
\* array, each writing one UNREGISTER for its id; the URI keeps none of the
\* ids, and an id whose task has started has no handler.  unregister(procedure,
\* id) for an id of that URI writes exactly one UNREGISTER, the id leaves the
\* handler table and the array, and the step removes nothing else from the
\* tables.
C16_Unregister ==
    /\ [](\A c \in 1..Len(api_log) :
            LET e == api_log[c] IN
            /\ (e.op = "unregister" /\ e.out = "gather") =>
                   /\ \A rid \in Ids : req_arg[rid].call = c => req_arg[rid].id \in Elems(e.ids)
                   /\ \A id \in Elems(e.ids) :
                        /\ Cardinality(RequestsOf(c, id)) + Cardinality(WaitingTasks(c, id)) = 1
                        /\ \A rid \in RequestsOf(c, id) : CountSentFor("UNREGISTER", rid, id) = 1
                        /\ id \notin Elems(procedure_ids[e.uri].ids)
                        /\ WaitingTasks(c, id) = {} => id \notin procedures
            /\ (e.op = "unregister" /\ e.out = "sent" /\ e.id \in Elems(e.had)) =>
                   /\ Cardinality({rid \in Ids : req_arg[rid].call = c}) = 1
                   /\ \A rid \in RequestsOf(c, e.id) : CountSentFor("UNREGISTER", rid, e.id) = 1
                   /\ Cardinality(RequestsOf(c, e.id)) = 1
                   /\ e.id \notin procedures
                   /\ e.id \notin Elems(procedure_ids[e.uri].ids))
    /\ [][(/\ Len(api_log') = Len(api_log) + 1
           /\ api_log'[Len(api_log')].op = "unregister"
           /\ api_log'[Len(api_log')].out = "sent") =>
              LET e == api_log'[Len(api_log')] IN
              /\ procedures' = procedures \ {e.id}
              /\ \A u \in URIs :
                   /\ procedure_ids'[u].has = procedure_ids[u].has
                   /\ Elems(procedure_ids'[u].ids) =
                          Elems(procedure_ids[u].ids) \ (IF u = e.uri THEN {e.id} ELSE {})]_vars

\* unregister(procedure) found two ids and both UNREGISTERs are written
C16_Witness ==
    \E c \in 1..Len(api_log) :
        /\ api_log[c].op = "unregister" /\ api_log[c].out = "gather"
        /\ Len(api_log[c].ids) = 2
        /\ \A id \in Elems(api_log[c].ids) :
             \E rid \in RequestsOf(c, id) : CountSentFor("UNREGISTER", rid, id) = 1

\* C17 (as claimed): unsubscribe(topic) for a topic with subscriptions makes one
\* UNSUBSCRIBE per subscription id and the topic keeps none of them;
\* unsubscribe(topic, id) for a subscription id of the topic writes exactly
\* one UNSUBSCRIBE and the id has no handler afterwards.
C17_Unsubscribe ==
    \A c \in 1..Len(api_log) :
        LET e == api_log[c] IN
        /\ (e.op = "unsubscribe" /\ e.id = 0 /\ e.had # <<>>) =>
               /\ e.out = "gather"
               /\ \A id \in Elems(e.had) :
                    /\ Cardinality(RequestsOf(c, id)) + Cardinality(WaitingTasks(c, id)) = 1
                    /\ id \notin Elems(sub_ids[e.uri].ids)
        /\ (e.op = "unsubscribe" /\ e.id # 0 /\ e.id \in Elems(e.had)) =>
               /\ e.out = "sent"
               /\ Cardinality(RequestsOf(c, e.id)) = 1
               /\ e.id \notin sub_handlers

\* C18: the callback of a subscribe request is called only for an EVENT read
\* after the SUBSCRIBED that acknowledged the request, and an id has a handler
\* only when the SUBSCRIBED that carried it has been dispatched to its waiter.
C18_NoEventBeforeSubscribed ==
    /\ \A i \in 1..Len(event_log) :
         LET rid == event_log[i].callback IN
         /\ rid \in Ids
         /\ reply_fut[rid].st = "result" /\ reply_fut[rid].val = "SUBSCRIBED"
         /\ reply_fut[rid].n = event_log[i].sub
         /\ reply_fut[rid].n < event_log[i].n
    /\ \A sid \in sub_handlers :
         \E j \in 1..Len(dispatched) :
             /\ dispatched[j].t = "SUBSCRIBED" /\ dispatched[j].n = sid
             /\ dispatched[j].id = sub_callback[sid]

\* an EVENT for the subscription's id was dispatched before the SUBSCRIBED and
\* called nothing; one read after the acknowledgement called the handler
C18_Witness ==
    \E i, j \in 1..Len(dispatched) :
        /\ i < j
        /\ dispatched[j].t = "SUBSCRIBED" /\ dispatched[j].n \in sub_handlers
        /\ dispatched[i].t = "EVENT" /\ dispatched[i].reg = dispatched[j].n
        /\ Len(event_log) = 1
        /\ event_log[1].sub = dispatched[j].n /\ event_log[1].n > dispatched[j].n

\* the messages this invocation has written
InvWritten(rid) == {i \in 1..Len(sent_messages) :
                       sent_messages[i].t \in {"YIELD", "ERROR"} /\ sent_messages[i].id = rid}

\* its terminal messages: a YIELD without progress, or an ERROR
InvTerminal(rid) == {i \in InvWritten(rid) :
                        sent_messages[i].t = "ERROR" \/ sent_messages[i].arg # "progress"}

\* the calls of its send methods that wrote their message
InvSentCalls(rid) == {j \in 1..Len(inv[rid].calls) : inv[rid].calls[j].out = "sent"}

\* C19: whatever the order of send_progress, send_result and send_error on one
\* Invocation, at most one terminal message is written; every send after a
\* send_result or send_error that went out fails; send_progress fails when
\* the caller did not ask for progress; and a call that fails writes nothing.
C19_InvocationSendDiscipline ==
    \A rid \in Ids :
        LET calls == inv[rid].calls IN
        /\ Cardinality(InvTerminal(rid)) <= 1
        /\ Cardinality(InvWritten(rid)) = Cardinality(InvSentCalls(rid))
        /\ \A i, j \in 1..Len(calls) :
             (i < j /\ calls[i].op \in {"send_result", "send_error"} /\ calls[i].out = "sent")
                 => calls[j].out = "RuntimeError"
        /\ \A j \in 1..Len(calls) :
             (calls[j].op = "send_progress" /\ ~inv[rid].progress)
                 => calls[j].out = "RuntimeError"
        /\ inv[rid].done <=> \E j \in InvSentCalls(rid) : calls[j].op # "send_progress"

\* a progress went out, then the result, then a further send failed
C19_Witness ==
    \E rid \in Ids :
        /\ Len(inv[rid].calls) = 3
        /\ inv[rid].calls[1] = [op |-> "send_progress", out |-> "sent"]
        /\ inv[rid].calls[2] = [op |-> "send_result", out |-> "sent"]
        /\ inv[rid].calls[3].out = "RuntimeError"
        /\ Cardinality(InvWritten(rid)) = 2

\* the messages an invocation has written, in the order on the wire
Wire(rid) == SelectSeq(sent_messages, LAMBDA m : m.t \in {"YIELD", "ERROR"} /\ m.id = rid)

\* the positions 1..n in order
Positions(n) == [k \in 1..n |-> k]

\* C20 as stated: when an async-generator handler has yielded n >= 1 values
\* and has ended, the runner has written exactly n YIELDs that carry the
\* values in the order yielded, the first n - 1 with the progress flag and the
\* last without it.
C20_ExactlyNYields ==
    \A rid \in Ids :
        LET r == inv[rid].runner
            n == Len(r.gen)
        IN r.pc = "done" =>
               /\ Len(Wire(rid)) = n
               /\ r.values = Positions(n)
               /\ \A k \in 1..(n - 1) : Wire(rid)[k].t = "YIELD" /\ Wire(rid)[k].arg = "progress"
               /\ Wire(rid)[n].t = "YIELD" /\ Wire(rid)[n].arg = ""

\* C20: when an async-generator handler has yielded n >= 1 values and has
\* ended, the runner has written the values in the order yielded, every
\* message a YIELD and only the last without the progress flag.  When the
\* last value is not wrapped in InvocationProgress there are exactly n YIELDs
\* and the last carries the last value; when it is wrapped there are n + 1:
\* all n values as progress and an empty final YIELD.  A wrapped value that
\* is not the last is sent as progress at its position.
C20_AsyncGenYields ==
    \A rid \in Ids :
        LET r == inv[rid].runner
            n == Len(r.gen)
            w == Len(Wire(rid))
        IN r.pc = "done" =>
               /\ w = IF r.gen[n] THEN n + 1 ELSE n
               /\ r.values = IF r.gen[n] THEN Append(Positions(n), 0) ELSE Positions(n)
               /\ \A k \in 1..(w - 1) : Wire(rid)[k].t = "YIELD" /\ Wire(rid)[k].arg = "progress"
               /\ Wire(rid)[w].t = "YIELD" /\ Wire(rid)[w].arg = ""

\* the handler that yields a value, a wrapped value and two more values has ended
C20_Witness ==
    \E rid \in Ids :
        /\ inv[rid].runner.pc = "done"
        /\ inv[rid].runner.gen = <<FALSE, TRUE, FALSE, FALSE>>
        /\ inv[rid].runner.values = <<1, 2, 3, 4>>
        /\ Len(Wire(rid)) = 4

\* the messages of an invocation that end it: a YIELD without the progress
\* flag or an ERROR
FinalMessages(rid) == SelectSeq(Wire(rid), LAMBDA m : m.t = "ERROR" \/ m.arg # "progress")

\* C21: when an INTERRUPT has reached a running invocation whose handler had
\* not ended, the handler decides the last message: if it catches the
\* Interrupt and produces a value, the invocation ends with one YIELD without
\* the progress flag that carries that value, and no ERROR is written; if the
\* Interrupt propagates, or the handler is an awaitable, which is cancelled,
\* the invocation ends with one ERROR and no YIELD without the progress flag
\* is written.  Every message before the last is a progress YIELD.
C21_InterruptDecidedByHandler ==
    \A rid \in Ids :
        LET r == inv[rid].runner
            w == Wire(rid)
        IN r.interrupted =>
               /\ Len(w) >= 1
               /\ Len(FinalMessages(rid)) = 1
               /\ FinalMessages(rid)[1] = w[Len(w)]
               /\ IF r.catches /\ r.kind # "awaitable"
                  THEN /\ w[Len(w)] = Msg("YIELD", rid, "", 0)
                       /\ r.values[Len(r.values)] = RecoveryValue
                  ELSE w[Len(w)].t = "ERROR"

\* a handler that sent progress caught the Interrupt and its value was the
\* result; the runner of the invocation has been awaited
C21_Witness ==
    \E rid \in Ids :
        /\ inv[rid].runner.interrupted
        /\ inv[rid].runner.catches
        /\ inv[rid].runner.kind = "gen"
        /\ Len(Wire(rid)) = 2
        /\ Wire(rid)[2].arg = ""
        /\ inv[rid].pc = "done"

\* b - a for ids whose high limbs differ by one at most
WideDiff(b, a) == (b.hi - a.hi) * Limb + (b.lo - a.lo)

\* the value of __id before the k-th call of next
GenBefore(k) == IF k = 1 THEN gen_from ELSE gen_out[k - 1]

\* C22: every id the generator produces lies in (0, 2^53]; each id is the
\* one before it plus one, the first id of a fresh generator is 1, and the
\* id that follows 2^53 is 1.
C22_IdsSequentialAndWrap ==
    \A k \in 1..Len(gen_out) :
        LET id == gen_out[k]
            before == GenBefore(k)
        IN /\ id.lo \in 0..(Limb - 1)
           /\ id.hi >= 0
           /\ id # Wide(0, 0)
           /\ id.hi < MAX_ID.hi \/ id = MAX_ID
           /\ IF before = MAX_ID
              THEN id = Wide(0, 1)
              ELSE id.hi - before.hi \in {0, 1} /\ WideDiff(id, before) = 1
           /\ before = Wide(0, 0) => id = Wide(0, 1)

\* the generator has produced 2^53 and the id after it
C22_Witness ==
    \E k \in 1..(Len(gen_out) - 1) : gen_out[k] = MAX_ID /\ gen_out[k + 1] = Wide(0, 1)

\* what the call of URI.policy_match should return: whether uri matches
\* the pattern other under the policy
MatchExpected(policy, uri, other) ==
    IF policy = MATCH_PREFIX
    THEN uri = other \/ StartsWith(uri, other \o <<".">>)
    ELSE IF policy = MATCH_WILDCARD
    THEN /\ Len(Split(uri)) = Len(Split(other))
         /\ \A i \in 1..Len(Split(other)) :
                Split(other)[i] # <<>> => Split(other)[i] = Split(uri)[i]
    ELSE uri = other

\* C23: URI.policy_match(policy, uri, other) returns whether uri matches the
\* pattern other: with the prefix policy iff uri = other or uri starts with
\* other + "."; with the wildcard policy iff both have the same number of
\* components and every non-empty component of other equals that of uri;
\* with no policy iff uri = other.
C23_PolicyMatch ==
    (match_out # "" /\ match_args.policy \in {"", MATCH_PREFIX, MATCH_WILDCARD}) =>
        match_out = Returned(MatchExpected(match_args.policy, match_args.uri, match_args.other))

\* C24: for a BlackWhiteList built from any lists of eligible and excluded
\* session ids and any session id r: r is in the bwlist iff it is eligible and
\* not excluded, where r is eligible iff no eligible list was given or r is
\* an item of it, and r is excluded iff an exclusion list was given and r is
\* an item of it.
C24_BwContains ==
    \A k \in 1..Len(bw_out) :
        LET c == bw_out[k]
            r == c.receiver
        IN /\ c.contains = (c.is_eligible /\ ~c.is_excluded)
           /\ c.is_eligible = (~bw_args.eligible_ids.has
                               \/ \E i \in 1..Len(bw_args.eligible_ids.ids) :
                                      bw_args.eligible_ids.ids[i] = r)
           /\ c.is_excluded = (bw_args.excluded_ids.has
                               /\ \E i \in 1..Len(bw_args.excluded_ids.ids) :
                                      bw_args.excluded_ids.ids[i] = r)

\* with both lists given, one session id was found in the bwlist and another,
\* eligible and excluded, was not
C24_Witness ==
    /\ bw_args.eligible_ids.has
    /\ bw_args.excluded_ids.has
    /\ \E k \in 1..Len(bw_out) : bw_out[k].contains
    /\ \E k \in 1..Len(bw_out) :
           bw_out[k].is_eligible /\ bw_out[k].is_excluded /\ ~bw_out[k].contains

\* a task waits for the result of a Call or for the reply to a request
Waiting(rid) == cons_pc[rid] = "wait_result" \/ sub_pc[rid] = "wait"

\* C25: when transport.recv has failed while requests are pending, every
\* pending Call and every single-shot waiter eventually completes: no task
\* waits forever.
C25_RecvFailureCompletesWaiters ==
    \A rid \in Ids : (receive_task.pc = "failed" /\ Waiting(rid)) ~> ~Waiting(rid)

\* a subscription handler has raised
HandlerRaised == \E i \in 1..Len(event_log) : event_log[i].raised

\* C26: an error raised by a subscription handler does not end the session:
\* the step in which the handler raises leaves the receive task, the
\* listener and the maps of pending requests and subscriptions as they were;
\* the receive loop goes on reading; and a message dispatched afterwards is
\* handled as before: an EVENT of a known subscription calls its handler and
\* a reply completes its waiter.
C26_HandlerErrorContained ==
    /\ [](HandlerRaised => (receive_task.pc = "recv" /\ attached))
    /\ []((HandlerRaised /\ receive_queue # <<>>) => ENABLED ReceiveLoop)
    /\ [][/\ (Len(event_log') > Len(event_log) /\ event_log'[Len(event_log')].raised) =>
                UNCHANGED <<receive_task, attached, awaiting_reply, ongoing_calls,
                            sub_handlers, sub_ids, sub_callback, reply_fut, result_fut>>
          /\ (HandlerRaised /\ dispatched' # dispatched) =>
                LET m == Head(emitted) IN
                /\ (m.t = "EVENT" /\ m.reg \in sub_handlers) =>
                       /\ Len(event_log') = Len(event_log) + 1
                       /\ event_log'[Len(event_log')].n = m.n
                       /\ event_log'[Len(event_log')].callback = sub_callback[m.reg]
                /\ (HasRequestId(m) /\ m.id \in awaiting_reply /\ reply_fut[m.id].st = "pending") =>
                       reply_fut'[m.id].st = "result"
      ]_vars

\* a handler raised on an EVENT and the EVENT read after it called the handler
C26_Witness ==
    \E i, j \in 1..Len(event_log) :
        /\ i < j
        /\ event_log[i].raised
        /\ event_log[i].n < event_log[j].n
        /\ \E k \in 1..Len(dispatched) : dispatched[k].n = event_log[j].n

\* the CALL messages written for a request id
CallsWritten(rid) == SelectSeq(sent_messages, LAMBDA m : m.t = "CALL" /\ m.id = rid)

\* on_progress or next_progress got past __ensure_receive_progress
ProgressUsed(rid) ==
    \/ progress_handler[rid]
    \/ progress_queue[rid].made
    \/ cons_pc[rid] \in {"send_progress", "wait_progress"}

OpIndex(ops, op) == CHOOSE i \in 1..Len(ops) : ops[i] = op

FutureSetByReply(rid) ==
    \E i \in 1..Len(response_ops[rid]) : response_ops[rid][i] = "set_result"

\* C28 (as claimed): when a final RESULT or ERROR is dispatched to a Call,
\* its entry is deleted from ongoing_calls before its result future is
\* completed.
C28_EntryDeletedBeforeFuture ==
    \A rid \in Ids :
        FutureSetByReply(rid)
            => \E i \in 1..Len(response_ops[rid]) :
                   /\ response_ops[rid][i] = "del"
                   /\ i < OpIndex(response_ops[rid], "set_result")

\* C28 (amended): when a final RESULT or ERROR is dispatched to a Call, its
\* result future is completed first and its entry is deleted from
\* ongoing_calls second, both in the same dispatch step: no state has the
\* future completed by the reply and the entry still in the map.
C28_FutureSetBeforeEntryDeleted ==
    \A rid \in Ids :
        FutureSetByReply(rid)
            => /\ response_ops[rid] = <<"set_result", "del">>
               /\ result_fut[rid].st = "result"
               /\ rid \notin ongoing_calls

\* C28 witness: an ERROR reply completed the future of a sent CALL
C28_Witness ==
    \E rid \in Ids : call_sent[rid] /\ FutureSetByReply(rid)
                     /\ result_fut[rid] = [st |-> "result", val |-> "ERROR"]

\* ---------------------------------------------------------------- C29
\* the INVOCATION that is dispatched next names no registration of the client
UnknownInvocationNext ==
    /\ emitted # <<>>
    /\ Head(emitted).t = "INVOCATION"
    /\ Head(emitted).reg \notin procedures

\* the answers written for a request id
ErrorsFor(rid) ==
    {i \in 1..Len(sent_messages) : sent_messages[i].t = "ERROR" /\ sent_messages[i].id = rid}

\* an INVOCATION with this request id was dispatched and made no Invocation
UnknownInvocationDispatched(rid) ==
    /\ \E i \in 1..Len(dispatched) : dispatched[i].t = "INVOCATION" /\ dispatched[i].id = rid
    /\ inv[rid] = NoInv

\* C29: the dispatch of an INVOCATION whose registration id is not in the
\* registration table writes one ERROR for the invocation's request id with
\* the URI wamp.error.invalid_argument and nothing else, starts no runner and
\* leaves the running invocations as they were; afterwards there is exactly
\* one ERROR for that request id.
C29_UnknownRegistrationAnswered ==
    /\ [](\A rid \in Ids :
              UnknownInvocationDispatched(rid)
                  => /\ Cardinality(ErrorsFor(rid)) = 1
                     /\ \A i \in ErrorsFor(rid) : sent_messages[i].arg = INVALID_ARGUMENT
                     /\ rid \notin running_procedures)
    /\ [][(UnknownInvocationNext /\ HandleMessage)
              => /\ sent_messages' = Append(sent_messages,
                                            Msg("ERROR", Head(emitted).id, INVALID_ARGUMENT, 0))
                 /\ running_procedures' = running_procedures
                 /\ inv' = inv]_vars

\* C29 witness: two INVOCATIONs that name no registration of the client were
\* each answered with an ERROR, one of them naming an id the router gave to a
\* registration of this client
C29_Witness ==
    \E r1, r2 \in Ids :
        /\ r1 # r2
        /\ UnknownInvocationDispatched(r1) /\ UnknownInvocationDispatched(r2)
        /\ Written("ERROR", r1) /\ Written("ERROR", r2)
        /\ \E i \in 1..Len(dispatched) :
               /\ dispatched[i].t = "INVOCATION" /\ dispatched[i].id = r1
               /\ dispatched[i].reg \in RegisteredIds

\* ---------------------------------------------------------------- C30
\* the first reply was a CHALLENGE for a method of the keyring
Challenged == join.first.t = "CHALLENGE" /\ join.first.arg \in join.keyring

\* the message written after the HELLO
AuthAnswer == sent_messages[2]

\* a step of the join that takes a message off the transport
JoinReads == receive_queue # <<>> /\ receive_queue' = Tail(receive_queue)

\* C30: after a CHALLENGE for a method of the keyring the client writes
\* exactly one message, an AUTHENTICATE or an ABORT.  After an ABORT (the
\* method returned one or raised) the transport is closed and the join fails
\* with AuthError, and no further message is read.  After an AUTHENTICATE the
\* next message decides: a WELCOME goes to check_welcome and the join gives a
\* Session when that returns, an ABORT gives AbortError with that ABORT, any
\* other message gives UnexpectedMessageError.
C30_ChallengeRoundTrip ==
    /\ [](Challenged =>
            /\ Len(sent_messages) = IF join.pc = "authenticate" THEN 1 ELSE 2
            /\ join.pc # "authenticate" =>
                  /\ AuthAnswer.t \in {"AUTHENTICATE", "ABORT"}
                  /\ AuthAnswer.t = "ABORT" => join.pc \in {"abort_send", "done"}
                  /\ (AuthAnswer.t = "ABORT" /\ join.pc = "done") =>
                        /\ join.out = "AuthError" /\ closed
                        /\ join.welcome = NoMsg /\ join.abort = NoMsg
                  /\ join.out = "Session" =>
                        /\ AuthAnswer.t = "AUTHENTICATE"
                        /\ join.welcome.t = "WELCOME"
                        /\ join.session_id = join.welcome.id)
    /\ [][(Challenged /\ Len(sent_messages) = 2 /\ AuthAnswer.t = "ABORT") => ~JoinReads]_vars
    /\ [][(Challenged /\ join.pc = "recv_welcome" /\ JoinReads) =>
              LET m == Head(receive_queue) IN
              /\ m.t = "WELCOME" => join'.pc = "check_welcome" /\ join'.welcome = m
              /\ m.t = "ABORT" =>
                    join'.pc = "done" /\ join'.out = "AbortError" /\ join'.abort = m
              /\ m.t \notin {"WELCOME", "ABORT"} =>
                    join'.pc = "done" /\ join'.out = "UnexpectedMessageError"]_vars
    /\ [][(Challenged /\ join.pc = "check_welcome" /\ join'.pc # "check_welcome") =>
              /\ join'.pc = "done"
              /\ join'.out \in {"Session", "AuthError"}]_vars

\* C30 witness: the method returned an ABORT of its own, the transport was
\* closed and the join failed while a message of the router was still unread
C30_Witness ==
    /\ Challenged /\ join.pc = "done" /\ join.out = "AuthError" /\ closed
    /\ Len(sent_messages) = 2 /\ AuthAnswer = Msg("ABORT", 0, NOT_AUTHORIZED, 0)
    /\ receive_queue # <<>>

\* ---------------------------------------------------------------- C31
\* C31 (as claimed): when a frame header announces a length over the receive
\* limit the transport is closed, a caller that is waiting in recv fails with
\* TransportError instead of waiting forever, and no part of that frame's
\* body is delivered as a message.
C31_OversizeFrameFailsRecv ==
    /\ [](raw.seen => raw.closed)
    /\ [](\A i \in 1..Len(raw.recv_out) : ~raw.recv_out[i].in_body)
    /\ (raw.seen /\ raw.recv_pc = "waiting")
           ~> (raw.recv_pc = "idle" /\ raw.recv_out # <<>>
               /\ raw.recv_out[Len(raw.recv_out)].error = "TransportError")

\* ---------------------------------------------------------------- C32
\* the session ids added to a constraint list by the calls made so far
AddedTo(field) ==
    {bw_out[k].session_id : k \in {i \in 1..Len(bw_out) : bw_out[i].field = field}}

\* C32 (as claimed): after construction and after any calls of
\* exclude_session_id and allow_session_id, each constraint list that is not
\* None is a list without duplicates, in ascending order, that holds exactly
\* the values given at construction and the values added since.
C32_ListsSortedAndComplete ==
    \A field \in {"excluded_ids", "eligible_ids"} :
        bwlist[field].has =>
            /\ IsList(bwlist[field])
            /\ \A i, j \in 1..Len(bwlist[field].ids) :
                   i < j => bwlist[field].ids[i] < bwlist[field].ids[j]
            /\ Items(bwlist[field].ids) = Items(bw_args[field].ids) \cup AddedTo(field)

\* ---------------------------------------------------------------- C33
\* the Call was killed by Client.close before any task had awaited it
KilledUnsent(rid) ==
    ~call_sent[rid] /\ result_fut[rid] = [st |-> "exception", val |-> "ClientClosed"]

\* C33: for every Call the CALL is written at most once, however the two
\* tasks interleave their awaits of result and next_progress and however
\* often they await again; a Call that Client.close killed before its first
\* await has no CALL written, and a task that has awaited it since got
\* ClientClosed.
C33_CallWrittenAtMostOnce ==
    \A rid \in Ids :
        /\ CountSent("CALL", rid) = IF call_sent[rid] THEN 1 ELSE 0
        /\ KilledUnsent(rid) =>
              /\ cons_pc[rid] \notin {"idle", "none"} =>
                    cons_pc[rid] = "done" /\ cons_out[rid] = "ClientClosed"
              /\ cons2[rid].pc \notin {"idle", "none"} =>
                    cons2[rid].pc = "done" /\ cons2[rid].out = "ClientClosed"

\* C33 witness: a killed Call that was never sent was awaited by both tasks,
\* by the first one through next_progress; both awaits are over
C33_Witness ==
    \E rid \in Ids :
        /\ KilledUnsent(rid)
        /\ cons_pc[rid] = "done" /\ cons2[rid].pc = "done"
        /\ awaited[rid] = "progress"
        /\ receive_progress[rid] = "true"

\* ---------------------------------------------------------------- C34
\* C34 (as claimed): once a Call is done (final RESULT, ERROR or kill), each
\* of the two tasks that is waiting in next_progress eventually returns from
\* it, and the iteration of a task that goes on calling it ends with None.
C34_WaitersReturnAfterEnd ==
    \A rid \in Ids :
        /\ (Done(result_fut[rid]) /\ cons_pc[rid] = "wait_progress")
               ~> (cons_pc[rid] # "wait_progress")
        /\ (Done(result_fut[rid]) /\ cons2[rid].pc = "wait_progress")
               ~> (cons2[rid].pc # "wait_progress")

\* ---------------------------------------------------------------- C35
\* C35 (as claimed): an EVENT for subscription id s that is dispatched after
\* the SUBSCRIBED that gave s to a subscribe request has been dispatched to the
\* request's waiter has called the handler of that request, whether or not
\* the task that called subscribe has resumed in between.
C35_EventAfterSubscribedDelivered ==
    \A i, j \in 1..Len(dispatched) :
        LET ack == dispatched[j]
            ev == dispatched[i] IN
        (/\ j < i
         /\ ack.t = "SUBSCRIBED"
         /\ reply_fut[ack.id].st = "result" /\ reply_fut[ack.id].n = ack.n
         /\ ev.t = "EVENT" /\ ev.reg = ack.n)
            => \E k \in 1..Len(event_log) :
                   event_log[k].n = ev.n /\ event_log[k].callback = ack.id

\* ---------------------------------------------------------------- C36
\* every request that waits for one reply, with the router's replies
WaiterNext ==
    \/ \E topic \in {"u1"} : Subscribe(topic)
    \/ \E rid \in Ids : SubscribeSendReturns(rid)
    \/ \E rid \in Ids : SubscribeResume(rid)
    \/ \E uri \in {"u1"} : id_gen < MaxId /\ Register(uri)
    \/ \E acknowledge \in {"true"} : id_gen < MaxId /\ Publish(acknowledge)
    \/ \E rid \in Ids : RequestSendReturns(rid)
    \/ \E rid \in Ids : RequestResume(rid)
    \/ \E uri \in {"u1"} : UnregisterAll(uri)
    \/ \E uri \in {"u1"}, id \in Serials : UnregisterId(uri, id)
    \/ \E topic \in {"u1"} : UnsubscribeAll(topic)
    \/ \E topic \in {"u1"}, id \in Serials : UnsubscribeId(topic, id)
    \/ GatherTaskStart
    \/ \E m \in SubscribeReplies \cup RequestReplies("REGISTER", "REGISTERED")
                \cup RequestReplies("UNREGISTER", "UNREGISTERED")
                \cup RequestReplies("UNSUBSCRIBE", "UNSUBSCRIBED")
                \cup RequestReplies("PUBLISH", "PUBLISHED") : RouterSend(m)
    \/ ReceiveLoop
    \/ HandleMessage

WaiterSpec == Init /\ [][WaiterNext]_vars

\* the requests written that wait for one reply
AwaitedRequests ==
    {i \in 1..Len(sent_messages) :
        \/ sent_messages[i].t \in {"REGISTER", "UNREGISTER", "SUBSCRIBE", "UNSUBSCRIBE"}
        \/ sent_messages[i].t = "PUBLISH" /\ sent_messages[i].arg = "true"}

\* the first message dispatched that carries this request id
FirstReply(rid) ==
    {j \in 1..Len(dispatched) :
        /\ HasRequestId(dispatched[j]) /\ dispatched[j].id = rid
        /\ \A k \in 1..(j - 1) : ~(HasRequestId(dispatched[k]) /\ dispatched[k].id = rid)}

\* C36: a register, unregister, subscribe, unsubscribe or acknowledged publish
\* request that has been written has its waiter in awaiting_reply as long as
\* no reply has completed the waiter, from the state in which it is written
\* on; and the first reply dispatched with the request id completed the
\* waiter, it was not dropped.
C36_WaiterRecordedBeforeSend ==
    /\ \A i \in AwaitedRequests :
         LET rid == sent_messages[i].id IN
         /\ reply_fut[rid].st = "pending" => rid \in awaiting_reply
         /\ \A j \in FirstReply(rid) :
                reply_fut[rid].st = "result" /\ reply_fut[rid].n = dispatched[j].n
    /\ [][\A rid \in Ids :
            (\E i \in 1..Len(sent_messages') :
                 /\ i > Len(sent_messages)
                 /\ i \in AwaitedRequests'
                 /\ sent_messages'[i].id = rid)
              => rid \in awaiting_reply']_vars

\* a reply was dispatched to the waiter while the task that made the request
\* was still suspended in the send
C36_Witness ==
    /\ \E rid \in Ids : req_pc[rid] = "send" /\ reply_fut[rid].st = "result"
                        /\ req_kind[rid] = "publish"
    /\ \E rid \in Ids : sub_pc[rid] = "send" /\ reply_fut[rid].st = "result"

\* ---------------------------------------------------------------- C37
\* C37 (as claimed): the session writes at most one GOODBYE to the transport,
\* whichever side began the goodbye.
C37_AtMostOneGoodbye ==
    Cardinality({i \in 1..Len(sent_messages) : sent_messages[i].t = "GOODBYE"}) <= 1

\* ---------------------------------------------------------------- C38
\* the URI stored with the handler of a registration id: the URI of the
\* register request that the REGISTERED carrying the id answered
UriOfRegistration(id) ==
    {req_arg[r].uri : r \in {q \in Ids : /\ req_kind[q] = "register"
                                          /\ req_pc[q] = "done" /\ req_out[q] = "ok"
                                          /\ reply_fut[q].n = id}}

\* C38 (as claimed): whenever no unregister call is half way through its
\* tasks, a registration id is listed under some URI of __procedure_ids
\* exactly when it is a key of __procedures, and it is listed under the URI
\* stored with its handler and under no other.
C38_RegistrationTablesConsistent ==
    gather_queue = <<>> =>
        \A id \in Serials :
            /\ (\E u \in URIs : procedure_ids[u].has /\ id \in Elems(procedure_ids[u].ids))
                   <=> id \in procedures
            /\ \A u \in URIs :
                   (procedure_ids[u].has /\ id \in Elems(procedure_ids[u].ids))
                       => UriOfRegistration(id) = {u}

\* ---------------------------------------------------------------- C39
\* C39 (as claimed): set_result and set_exception are called only on a waiter
\* that is still pending: a message dispatched to a waiter of awaiting_reply
\* finds its future pending, and _cleanup finds no waiter already done
\* (Client.close never ends with InvalidStateError).
C39_WaiterCompletedOnce ==
    /\ [](client_close # "InvalidStateError")
    /\ [][Len(dispatched') > Len(dispatched) =>
            LET m == dispatched'[Len(dispatched')] IN
            (HasRequestId(m) /\ m.id \in awaiting_reply) => reply_fut[m.id].st = "pending"]_vars

\* ---------------------------------------------------------------- C40
\* C40 (as claimed): an invocation's request id is a key of
\* __running_procedures while its runner runs and not after the dispatcher
\* has finished, and the `del` that ends the dispatcher never fails, also
\* when _cleanup has cancelled the runner and cleared the map before.
C40_RunnerEntryRemoved ==
    \A rid \in Ids :
        /\ inv[rid].pc = "running" => rid \in running_procedures
        /\ inv[rid].pc \in {"none", "done"} => rid \notin running_procedures
        /\ inv[rid].pc # "failed"

====
